---------------------------- MODULE Spec2Model ----------------------------
(***************************************************************************)
(* State-machine model of the GPU bridge bookkeeping layers:               *)
(*   - NVBridgeCore (src/src/nvidia/nvbridge_core.cpp): initialization,    *)
(*     the allocation table and the host/device copies;                    *)
(*   - the kernel-side Metal layer (src/nvbridge_metal.cpp): the shader    *)
(*     cache and the pipeline-state cache;                                 *)
(*   - NVMetalCommandBuffer (src/src/nvidia/nvbridge_metal.cpp): the       *)
(*     recording -> committed -> completed object and its encoders.        *)
(*   - the kernel-side Intel Arc bridge                                    *)
(*     (src/src/installers/intel_arc/arc_bridge.cpp): initialization,      *)
(*     shutdown and its internal buffers;                                  *)
(*   - NVMetalShaderLibrary (src/src/nvidia/nvbridge_metal.cpp): the map   *)
(*     of translated functions;                                            *)
(*   - the user-space ArcBridge (src/src/intel_arc/arc_bridge.cpp):        *)
(*     initialization under m_mutex, shutdown and allocation;              *)
(*   - the CUDA bridge (src/src/nvidia/nvbridge_cuda.cpp): the kernel,     *)
(*     stream and event tables behind gCUDALock.                           *)
(* Each layer has its own specification (SpecCore, SpecShader, SpecPipe,   *)
(* SpecCmd, SpecArc, SpecLib, SpecXe, SpecCuda, ...); the variables of the *)
(* other layers keep their initial value.                                  *)
(***************************************************************************)
EXTENDS Integers, Sequences, FiniteSets, TLC

VARIABLES
    \* ---- NVBridgeCore ----
    m_initialized,   \* std::atomic<bool> m_initialized
    impl,            \* NVBridgeCore::Impl: handles, driver function pointers
    memoryInfo,      \* Impl::memoryInfo
    allocations,     \* Impl::allocations, std::map<void*, size_t>
    vendorLive,      \* addresses the vendor allocator has handed out and not got back
    last,            \* the last NVBridgeCore call: arguments, result, log line, vendor calls
    commandBuffers,  \* Impl::commandBuffers, std::vector<NVIDIA::CommandBuffer>
    hung,            \* a thread blocked for good while it holds m_mutex
    \* ---- Metal layer caches ----
    gMetalInitialized,
    gShaderCache,          \* ShaderCacheEntry[MAX_SHADER_CACHE_ENTRIES]
    gShaderCacheEntries,
    gPipelineCache,        \* PipelineStateEntry[MAX_PIPELINE_CACHE_ENTRIES]
    gPipelineCacheEntries,
    nextHandle,            \* next address IOMalloc hands out for a pipeline state
    allocFailed,           \* an IOMalloc has failed since the layer was initialized
    crashed,               \* the kernel dereferenced a null payload pointer
    issued,                \* per pipeline input, the handle its last successful creation returned
    mlast,                 \* the last Metal-layer call
    \* ---- NVMetalCommandBuffer ----
    committed,
    completed,
    activeEncoder,         \* index into encoders, 0 for an empty shared_ptr
    encoders,              \* every encoder created from the buffer: [kind, active]
    submitted,             \* records handed to NVBridge_SubmitCommand, in order
    flushCalls,            \* calls of NVBridge_FlushCommands
    flushedAfter,          \* per flush: how many records had been submitted when it was called
    commitCalls,           \* calls of commit()
    waitCalls,             \* times waitUntilCompleted() reached the simulated GPU wait
    clast,                 \* the last command-buffer call
    \* ---- client threads inside the kernel Metal layer ----
    threads,               \* per thread: the call it is in, stopped between two lock sections
    \* ---- client threads inside NVBridgeCore ----
    m_mutex,               \* owner of the bridge's mutex and the threads blocked on it
    \* ---- the kernel-side Intel Arc bridge ----
    gArcBridgeInitialized, \* the flag set at the end of ArcBridgeInitialize
    gPCIDevice,            \* retains the bridge holds on the PCI device
    gRegisterMap,          \* whether the register mapping exists
    gFramebufferMap,       \* whether the framebuffer mapping exists
    gGPUInfo,              \* device ids and the addresses of the three internal buffers
    arcAllocations,        \* every buffer ArcBridgeAllocateMemory made, with its release counts
    alast,                 \* the last Arc bridge call
    \* ---- NVMetalShaderLibrary ----
    functions,             \* std::unordered_map<std::string, std::shared_ptr<NVMetalFunction>>
    translateCalls,        \* calls of NVMetalShaderTranslator::translateMSLToNV
    flast,                 \* the last newFunction call
    \* ---- ArcBridge (user space) ----
    arcInitialized,        \* ArcBridge::m_initialized
    arcImpl,               \* ArcBridge::Impl: handles, device info, allocations
    arcHung,               \* a thread blocked for good while it holds ArcBridge::m_mutex
    xlast,                 \* the last ArcBridge call
    \* ---- the CUDA bridge ----
    gCUDAInitialized,
    gCUDAKernels,          \* NVCUDAKernel[MAX_CUDA_KERNELS], indexed from 0; of each slot the
                           \* fields a check reads, and the block dimensions of a kernel
    gCUDAStreams,          \* NVCUDAStream[MAX_CUDA_STREAMS], indexed from 0
    gCUDAEvents,           \* NVCUDAEvent[MAX_CUDA_EVENTS], indexed from 0
    gCUDALock,             \* OSSpinLock gCUDALock: "free" or "locked"
    cudaThreads,           \* per thread: the create call it is in, between its two lock sections
    culast                 \* the last CUDA bridge call that returned

coreVars  == <<m_initialized, impl, memoryInfo, allocations, vendorLive, last,
               commandBuffers, hung>>
metalVars == <<gMetalInitialized, gShaderCache, gShaderCacheEntries, gPipelineCache,
               gPipelineCacheEntries, nextHandle, allocFailed, crashed, issued, mlast>>
cmdVars   == <<committed, completed, activeEncoder, encoders, submitted, flushCalls,
               flushedAfter, commitCalls, waitCalls, clast>>
concVars  == <<threads, m_mutex>>
arcVars   == <<gArcBridgeInitialized, gPCIDevice, gRegisterMap, gFramebufferMap, gGPUInfo,
               arcAllocations, alast>>
libVars   == <<functions, translateCalls, flast>>
xeVars    == <<arcInitialized, arcImpl, arcHung, xlast>>
cudaVars  == <<gCUDAInitialized, gCUDAKernels, gCUDAStreams, gCUDAEvents, gCUDALock,
               cudaThreads, culast>>
vars      == <<coreVars, metalVars, cmdVars, concVars, arcVars, libVars, xeVars, cudaVars>>

-----------------------------------------------------------------------------
(* Bounds of the model *)

\* device addresses the vendor allocator can hand out: 1..MaxPtr
MaxPtr == 2

NULL == 0

Ptrs == 1..MaxPtr

\* sizes a client asks for / copies with
Sizes == {1, 4096, 4097}

\* a uint32_t as two 16-bit halves <<low, high>>, from a value below 2^31
U32(n) == <<n % 65536, (n \div 65536) % 65536>>

\* a * b in uint32_t arithmetic: the product modulo 2^32. Mul16(x, y) is the
\* low 16 bits and the carry of x * y for x, y below 2^16
MulU32(a, b) ==
    LET Mul16(x, y) ==
            LET p1 == x * (y \div 256)
                p0 == x * (y % 256)
                t  == (p1 % 256) * 256 + p0
            IN [low |-> t % 65536, carry |-> (p1 \div 256) + (t \div 65536)]
        ll == Mul16(a[1], b[1])
    IN <<ll.low, (ll.carry + Mul16(a[1], b[2]).low + Mul16(a[2], b[1]).low) % 65536>>

-----------------------------------------------------------------------------
(* NVBridgeCore *)

\* enum class SupportedGPUs: 0x13C2, 0x13C0, 0x1B80
GTX970 == 5058

GTX980 == 5056

GTX1080 == 7040

\* a supported device and one that is not in SupportedGPUs
DeviceIDs == {GTX970, 4660}

DriverSymbols ==
    {"NVInitialize", "NVAllocateMemory", "NVFreeMemory", "NVSubmitCommand",
     "NVWaitForCompletion"}

\* what the host does during one initialize call: whether the device is found,
\* IOServiceOpen and dlopen succeed, which symbols dlsym resolves, and whether
\* nvInitialize returns 0
InitEnv(found, openOk, dlopenOk, syms, nvInitOk) ==
    [found |-> found, openOk |-> openOk, dlopenOk |-> dlopenOk, syms |-> syms,
     nvInitOk |-> nvInitOk]

\* everything succeeds, or exactly one step fails
InitEnvs ==
    {InitEnv(TRUE, TRUE, TRUE, DriverSymbols, TRUE),
     InitEnv(FALSE, TRUE, TRUE, DriverSymbols, TRUE),
     InitEnv(TRUE, FALSE, TRUE, DriverSymbols, TRUE),
     InitEnv(TRUE, TRUE, FALSE, DriverSymbols, TRUE),
     InitEnv(TRUE, TRUE, TRUE, DriverSymbols, FALSE)}
    \cup {InitEnv(TRUE, TRUE, TRUE, DriverSymbols \ {s}, TRUE) : s \in DriverSymbols}

\* totalMemory is 4ULL * 1024 * 1024 * 1024 bytes; it is kept in MiB because
\* the byte count does not fit the model checker's integers
TotalMemoryMiB == 4 * 1024

EmptyMemoryInfo == [totalMemoryMiB |-> 0, freeMemoryMiB |-> 0, usedMemory |-> 0]

EmptyImpl ==
    [deviceService |-> FALSE, deviceConnect |-> FALSE, driverHandle |-> FALSE,
     functions |-> {}, metalDevice |-> FALSE]

NoCall == [op |-> "none", ptr |-> NULL, size |-> 0, result |-> "none",
           log |-> "none", vendor |-> <<>>, prevLog |-> "other"]

\* the record of a call; prevLog is the log line of the call before it when that
\* was the same operation on the same arguments, "other" when it was not
Call(op, ptr, size, result, log, vendor) ==
    [op |-> op, ptr |-> ptr, size |-> size, result |-> result, log |-> log,
     vendor |-> vendor,
     prevLog |-> IF last.op = op /\ last.ptr = ptr /\ last.size = size
                 THEN last.log ELSE "other"]

isDeviceSupported(deviceID) == deviceID \in {GTX970, GTX980, GTX1080}

\* NVBridgeCore::getMemoryInfo
getMemoryInfo == IF m_initialized THEN memoryInfo ELSE EmptyMemoryInfo

\* sum of the recorded sizes of the live allocations
RECURSIVE SumSizes(_)
SumSizes(table) ==
    IF DOMAIN table = {} THEN 0
    ELSE LET p == CHOOSE q \in DOMAIN table : TRUE
         IN table[p] + SumSizes([q \in DOMAIN table \ {p} |-> table[q]])

\* loadDriverFunctions that asks for NVInitialize only
loadDriverFunctionsInitOnly(dlopenOk, syms) ==
    IF ~dlopenOk THEN [ok |-> FALSE, driverHandle |-> FALSE, functions |-> impl.functions]
    ELSE [ok |-> "NVInitialize" \in syms, driverHandle |-> TRUE, functions |-> syms]

\* loadDriverFunctions: dlopen, five dlsym, all must resolve
loadDriverFunctions(dlopenOk, syms) ==
    IF ~dlopenOk THEN [ok |-> FALSE, driverHandle |-> FALSE, functions |-> impl.functions]
    ELSE [ok |-> syms = DriverSymbols, driverHandle |-> TRUE, functions |-> syms]

\* initializeHardware: IOServiceOpen, mapRegisters, loadDriverFunctions,
\* nvInitialize, initializeEngine
initializeHardware(openOk, dlopenOk, syms, nvInitOk) ==
    IF ~openOk
    THEN [ok |-> FALSE, impl |-> [impl EXCEPT !.deviceService = TRUE]]
    ELSE LET ld == loadDriverFunctions(dlopenOk, syms)
             i2 == [impl EXCEPT !.deviceService = TRUE, !.deviceConnect = TRUE,
                                !.driverHandle = ld.driverHandle,
                                !.functions = ld.functions]
         IN [ok |-> ld.ok /\ nvInitOk, impl |-> i2]

\* initializeMemoryManager
initializeMemoryManager ==
    [totalMemoryMiB |-> TotalMemoryMiB, freeMemoryMiB |-> TotalMemoryMiB, usedMemory |-> 0]

\* NVBridgeCore::initialize(deviceID, forceInit)
initialize(deviceID, forceInit, found, openOk, dlopenOk, syms, nvInitOk) ==
    /\ UNCHANGED <<metalVars, cmdVars, concVars, arcVars, libVars, xeVars, cudaVars>>
    /\ ~hung
    /\ UNCHANGED <<commandBuffers, hung>>
    /\ UNCHANGED <<allocations, vendorLive>>
    /\ IF m_initialized
       THEN /\ last' = Call("initialize", NULL, 0, "SUCCESS", "already initialized", <<>>)
            /\ UNCHANGED <<m_initialized, impl, memoryInfo>>
       ELSE IF (~isDeviceSupported(deviceID) /\ ~forceInit) \/ ~found
       THEN /\ last' = Call("initialize", NULL, 0, "DEVICE_NOT_FOUND", "error", <<>>)
            /\ UNCHANGED <<m_initialized, impl, memoryInfo>>
       ELSE LET hw == initializeHardware(openOk, dlopenOk, syms, nvInitOk)
            IN IF ~hw.ok
               THEN /\ last' = Call("initialize", NULL, 0, "DRIVER_NOT_LOADED", "error", <<>>)
                    /\ impl' = hw.impl
                    /\ UNCHANGED <<m_initialized, memoryInfo>>
               ELSE /\ last' = Call("initialize", NULL, 0, "SUCCESS", "completed",
                                    <<<<"nvInitialize", NULL>>>>)
                    /\ impl' = [hw.impl EXCEPT !.metalDevice = TRUE]
                    /\ memoryInfo' = initializeMemoryManager
                    /\ m_initialized' = TRUE

\* a shutdown loop that stops before the last record
RECURSIVE FreeAllButLast(_)
FreeAllButLast(ps) ==
    IF Cardinality(ps) <= 1 THEN <<>>
    ELSE LET p == CHOOSE q \in ps : \A r \in ps : q <= r
         IN <<<<"nvFreeMemory", p>>>> \o FreeAllButLast(ps \ {p})

\* the vendor-free calls shutdown makes, one per record, in map (address) order
RECURSIVE FreeAll(_)
FreeAll(ps) ==
    IF ps = {} THEN <<>>
    ELSE LET p == CHOOSE q \in ps : \A r \in ps : q <= r
         IN <<<<"nvFreeMemory", p>>>> \o FreeAll(ps \ {p})

\* NVBridgeCore::shutdown
shutdown ==
    /\ UNCHANGED <<metalVars, cmdVars, concVars, arcVars, libVars, xeVars, cudaVars>>
    /\ ~hung
    /\ UNCHANGED <<commandBuffers, hung>>
    /\ UNCHANGED memoryInfo
    /\ IF ~m_initialized
       THEN /\ last' = Call("shutdown", NULL, 0, "void", "not initialized", <<>>)
            /\ UNCHANGED <<m_initialized, impl, allocations, vendorLive>>
       ELSE /\ last' = Call("shutdown", NULL, 0, "void", "completed",
                            IF "NVFreeMemory" \in impl.functions
                            THEN FreeAll(DOMAIN allocations) ELSE <<>>)
            /\ vendorLive' = IF "NVFreeMemory" \in impl.functions
                             THEN vendorLive \ DOMAIN allocations ELSE vendorLive
            /\ allocations' = <<>>
            /\ impl' = [impl EXCEPT !.metalDevice = FALSE, !.deviceConnect = FALSE,
                                    !.deviceService = FALSE, !.driverHandle = FALSE]
            /\ m_initialized' = FALSE

\* the table after allocations[ptr] = size
RecordAllocation(table, ptr, size) ==
    [q \in DOMAIN table \cup {ptr} |-> IF q = ptr THEN size ELSE table[q]]

\* allocateMemory without the test of the pointer nvAllocateMemory returned:
\* whatever comes back is recorded
allocateMemoryUnchecked(size, ptr) ==
    /\ UNCHANGED <<metalVars, cmdVars, concVars, arcVars, libVars, xeVars, cudaVars>>
    /\ ~hung
    /\ UNCHANGED <<commandBuffers, hung>>
    /\ UNCHANGED <<m_initialized, impl, memoryInfo>>
    /\ m_initialized
    /\ "NVAllocateMemory" \in impl.functions
    /\ ptr \in (Ptrs \ vendorLive) \cup {NULL}
    /\ allocations' = RecordAllocation(allocations, ptr, size)
    /\ vendorLive' = vendorLive \cup ({ptr} \ {NULL})
    /\ last' = Call("allocateMemory", ptr, size, IF ptr # NULL THEN "ptr" ELSE "null",
                    "allocated", <<<<"nvAllocateMemory", size>>>>)

\* NVBridgeCore::allocateMemory(size, flags); ptr is what nvAllocateMemory
\* returns: NULL, or an address the vendor has not handed out
allocateMemory(size, ptr) ==
    /\ UNCHANGED <<metalVars, cmdVars, concVars, arcVars, libVars, xeVars, cudaVars>>
    /\ ~hung
    /\ UNCHANGED <<commandBuffers, hung>>
    /\ UNCHANGED <<m_initialized, impl, memoryInfo>>
    /\ IF ~m_initialized
       THEN /\ last' = Call("allocateMemory", NULL, size, "null", "not initialized", <<>>)
            /\ UNCHANGED <<allocations, vendorLive>>
       ELSE IF "NVAllocateMemory" \notin impl.functions
       THEN /\ last' = Call("allocateMemory", NULL, size, "null", "not available", <<>>)
            /\ UNCHANGED <<allocations, vendorLive>>
       ELSE /\ ptr \in (Ptrs \ vendorLive) \cup {NULL}
            /\ IF ptr # NULL
               THEN /\ allocations' = RecordAllocation(allocations, ptr, size)
                    /\ vendorLive' = vendorLive \cup {ptr}
                    /\ last' = Call("allocateMemory", ptr, size, "ptr", "allocated",
                                    <<<<"nvAllocateMemory", size>>>>)
               ELSE /\ UNCHANGED <<allocations, vendorLive>>
                    /\ last' = Call("allocateMemory", NULL, size, "null", "failed",
                                    <<<<"nvAllocateMemory", size>>>>)

\* the table when the erase is left out
EraseNothing(table, ptr) == table

\* the table after allocations.erase(it)
EraseAllocation(table, ptr) == [q \in DOMAIN table \ {ptr} |-> table[q]]

\* NVBridgeCore::freeMemory(ptr)
freeMemory(ptr) ==
    /\ UNCHANGED <<metalVars, cmdVars, concVars, arcVars, libVars, xeVars, cudaVars>>
    /\ ~hung
    /\ UNCHANGED <<commandBuffers, hung>>
    /\ UNCHANGED <<m_initialized, impl, memoryInfo>>
    /\ IF ~m_initialized
       THEN /\ last' = Call("freeMemory", ptr, 0, "void", "not initialized", <<>>)
            /\ UNCHANGED <<allocations, vendorLive>>
       ELSE IF "NVFreeMemory" \notin impl.functions
       THEN /\ last' = Call("freeMemory", ptr, 0, "void", "not available", <<>>)
            /\ UNCHANGED <<allocations, vendorLive>>
       ELSE IF ptr \in DOMAIN allocations
       THEN /\ vendorLive' = vendorLive \ {ptr}
            /\ allocations' = EraseAllocation(allocations, ptr)
            /\ last' = Call("freeMemory", ptr, 0, "void", "freed",
                            <<<<"nvFreeMemory", ptr>>>>)
       ELSE /\ UNCHANGED <<allocations, vendorLive>>
            /\ last' = Call("freeMemory", ptr, 0, "void", "unallocated", <<>>)

\* a copy check that looks the pointer up but does not compare the sizes
CopyCheckNoSize(devPtr, size) ==
    IF ~m_initialized THEN [result |-> "false", log |-> "not initialized"]
    ELSE IF devPtr \notin DOMAIN allocations
    THEN [result |-> "false", log |-> "not a valid GPU allocation"]
    ELSE [result |-> "true", log |-> "copying"]

\* the result and log line of a copy whose device side is devPtr
CopyCheck(devPtr, size) ==
    IF ~m_initialized THEN [result |-> "false", log |-> "not initialized"]
    ELSE IF devPtr \notin DOMAIN allocations
    THEN [result |-> "false", log |-> "not a valid GPU allocation"]
    ELSE IF allocations[devPtr] < size
    THEN [result |-> "false", log |-> "buffer too small"]
    ELSE [result |-> "true", log |-> "copying"]

\* NVBridgeCore::copyHostToDevice(dst, src, size): dst is the device side
copyHostToDevice(dst, size) ==
    /\ UNCHANGED <<metalVars, cmdVars, concVars, arcVars, libVars, xeVars, cudaVars>>
    /\ ~hung
    /\ UNCHANGED <<commandBuffers, hung>>
    /\ last' = Call("copyHostToDevice", dst, size, CopyCheck(dst, size).result,
                    CopyCheck(dst, size).log, <<>>)
    /\ UNCHANGED <<m_initialized, impl, memoryInfo, allocations, vendorLive>>

\* NVBridgeCore::copyDeviceToHost(dst, src, size): src is the device side
copyDeviceToHost(src, size) ==
    /\ UNCHANGED <<metalVars, cmdVars, concVars, arcVars, libVars, xeVars, cudaVars>>
    /\ ~hung
    /\ UNCHANGED <<commandBuffers, hung>>
    /\ last' = Call("copyDeviceToHost", src, size, CopyCheck(src, size).result,
                    CopyCheck(src, size).log, <<>>)
    /\ UNCHANGED <<m_initialized, impl, memoryInfo, allocations, vendorLive>>

\* command buffers the bridge hands out
MaxBuffers == 2

\* the ids a client passes: 0 is the id of a buffer that was never created
BufferIds == 0..MaxBuffers

\* what locking m_mutex does in a thread that already holds it (std::mutex is
\* not recursive): the thread blocks on itself, or the lock is taken again
RelockOutcomes == {"deadlock", "reentered"}

\* the vector after push_back of a buffer that owns cmdBufferPtr; okSubmits
\* counts the nvSubmitCommand calls for it that returned 0
PushCommandBuffer(buffers, cmdBufferPtr) ==
    Append(buffers, [ptr |-> cmdBufferPtr, submitted |-> FALSE, completed |-> FALSE,
                     okSubmits |-> 0])

\* NVBridgeCore::createCommandBuffer; relock is the outcome of the nested
\* allocateMemory call locking m_mutex again, ptr what nvAllocateMemory returns
createCommandBuffer(relock, ptr) ==
    /\ UNCHANGED <<metalVars, cmdVars, concVars, arcVars, libVars, xeVars, cudaVars>>
    /\ ~hung
    /\ UNCHANGED <<m_initialized, impl, memoryInfo>>
    /\ IF ~m_initialized
       THEN /\ last' = Call("createCommandBuffer", 0, 0, "empty", "not initialized", <<>>)
            /\ UNCHANGED <<allocations, vendorLive, commandBuffers, hung>>
       ELSE IF relock = "deadlock"
       THEN /\ hung' = TRUE
            /\ last' = Call("createCommandBuffer", 0, 0, "none", "blocked", <<>>)
            /\ UNCHANGED <<allocations, vendorLive, commandBuffers>>
       ELSE /\ ptr \in (Ptrs \ vendorLive) \cup {NULL}
            /\ UNCHANGED hung
            /\ IF ptr = NULL
               THEN /\ last' = Call("createCommandBuffer", 0, 0, "empty", "failed",
                                    <<<<"nvAllocateMemory", 65536>>>>)
                    /\ UNCHANGED <<allocations, vendorLive, commandBuffers>>
               ELSE /\ Len(commandBuffers) < MaxBuffers
                    /\ allocations' = RecordAllocation(allocations, ptr, 65536)
                    /\ vendorLive' = vendorLive \cup {ptr}
                    /\ commandBuffers' = PushCommandBuffer(commandBuffers, ptr)
                    /\ last' = Call("createCommandBuffer", Len(commandBuffers) + 1, 0,
                                    "buffer", "created", <<<<"nvAllocateMemory", 65536>>>>)

\* submitCommandBuffer without the test of cb.submitted: a submitted buffer
\* goes to the vendor again
submitCommandBufferResubmits(id, vendorOk) ==
    /\ UNCHANGED <<metalVars, cmdVars, concVars, arcVars, libVars, xeVars, cudaVars>>
    /\ ~hung
    /\ UNCHANGED <<m_initialized, impl, memoryInfo, allocations, vendorLive, hung>>
    /\ m_initialized
    /\ id \in 1..Len(commandBuffers)
    /\ vendorOk
    /\ last' = Call("submitCommandBuffer", id, 0, "true", "submitted",
                    <<<<"nvSubmitCommand", id>>>>)
    /\ commandBuffers' = [commandBuffers EXCEPT ![id].submitted = TRUE,
                                                ![id].okSubmits = @ + 1]

\* submitCommandBuffer without the test of m_initialized
submitCommandBufferUninitialized(id, vendorOk) ==
    /\ UNCHANGED <<metalVars, cmdVars, concVars, arcVars, libVars, xeVars, cudaVars>>
    /\ ~hung
    /\ UNCHANGED <<m_initialized, impl, memoryInfo, allocations, vendorLive, hung>>
    /\ id \in 1..Len(commandBuffers)
    /\ ~commandBuffers[id].submitted
    /\ vendorOk
    /\ last' = Call("submitCommandBuffer", id, 0, "true", "submitted",
                    <<<<"nvSubmitCommand", id>>>>)
    /\ commandBuffers' = [commandBuffers EXCEPT ![id].submitted = TRUE,
                                                ![id].okSubmits = @ + 1]

\* NVBridgeCore::submitCommandBuffer(cmdBuffer); id is cmdBuffer.id and
\* vendorOk says whether nvSubmitCommand returns 0
submitCommandBuffer(id, vendorOk) ==
    /\ UNCHANGED <<metalVars, cmdVars, concVars, arcVars, libVars, xeVars, cudaVars>>
    /\ ~hung
    /\ UNCHANGED <<m_initialized, impl, memoryInfo, allocations, vendorLive, hung>>
    /\ IF ~m_initialized
       THEN /\ last' = Call("submitCommandBuffer", id, 0, "false", "not initialized", <<>>)
            /\ UNCHANGED commandBuffers
       ELSE IF "NVSubmitCommand" \notin impl.functions
       THEN /\ last' = Call("submitCommandBuffer", id, 0, "false", "not available", <<>>)
            /\ UNCHANGED commandBuffers
       ELSE IF id \notin 1..Len(commandBuffers)
       THEN /\ last' = Call("submitCommandBuffer", id, 0, "false", "not found", <<>>)
            /\ UNCHANGED commandBuffers
       ELSE IF commandBuffers[id].submitted
       THEN /\ last' = Call("submitCommandBuffer", id, 0, "false", "already submitted", <<>>)
            /\ UNCHANGED commandBuffers
       ELSE IF ~vendorOk
       THEN /\ last' = Call("submitCommandBuffer", id, 0, "false", "failed",
                            <<<<"nvSubmitCommand", id>>>>)
            /\ UNCHANGED commandBuffers
       ELSE /\ last' = Call("submitCommandBuffer", id, 0, "true", "submitted",
                            <<<<"nvSubmitCommand", id>>>>)
            /\ commandBuffers' = [commandBuffers EXCEPT ![id].submitted = TRUE,
                                                        ![id].okSubmits = @ + 1]

\* NVBridgeCore::waitForCommandBuffer(cmdBuffer, timeoutMs); vendorOk says
\* whether nvWaitForCompletion returns 0
waitForCommandBuffer(id, vendorOk) ==
    /\ UNCHANGED <<metalVars, cmdVars, concVars, arcVars, libVars, xeVars, cudaVars>>
    /\ ~hung
    /\ UNCHANGED <<m_initialized, impl, memoryInfo, allocations, vendorLive, hung>>
    /\ IF ~m_initialized
       THEN /\ last' = Call("waitForCommandBuffer", id, 0, "false", "not initialized", <<>>)
            /\ UNCHANGED commandBuffers
       ELSE IF "NVWaitForCompletion" \notin impl.functions
       THEN /\ last' = Call("waitForCommandBuffer", id, 0, "false", "not available", <<>>)
            /\ UNCHANGED commandBuffers
       ELSE IF id \notin 1..Len(commandBuffers)
       THEN /\ last' = Call("waitForCommandBuffer", id, 0, "false", "not found", <<>>)
            /\ UNCHANGED commandBuffers
       ELSE IF ~commandBuffers[id].submitted
       THEN /\ last' = Call("waitForCommandBuffer", id, 0, "false", "not submitted", <<>>)
            /\ UNCHANGED commandBuffers
       ELSE IF commandBuffers[id].completed
       THEN /\ last' = Call("waitForCommandBuffer", id, 0, "true", "already completed", <<>>)
            /\ UNCHANGED commandBuffers
       ELSE IF ~vendorOk
       THEN /\ last' = Call("waitForCommandBuffer", id, 0, "false", "failed",
                            <<<<"nvWaitForCompletion", id>>>>)
            /\ UNCHANGED commandBuffers
       ELSE /\ last' = Call("waitForCommandBuffer", id, 0, "true", "completed",
                            <<<<"nvWaitForCompletion", id>>>>)
            /\ commandBuffers' = [commandBuffers EXCEPT ![id].completed = TRUE]

CoreInit ==
    /\ commandBuffers = <<>>
    /\ hung = FALSE
    /\ m_initialized = FALSE
    /\ impl = EmptyImpl
    /\ memoryInfo = EmptyMemoryInfo
    /\ allocations = <<>>
    /\ vendorLive = {}
    /\ last = NoCall

\* NVBridgeCore::createMetalTexture(ptr, width, height, format): requiredSize is
\* width * height * 4 computed in uint32_t and then widened to size_t
createMetalTexture(ptr, width, height) ==
    /\ UNCHANGED <<metalVars, cmdVars, concVars, arcVars, libVars, xeVars, cudaVars>>
    /\ ~hung
    /\ UNCHANGED <<commandBuffers, hung>>
    /\ UNCHANGED <<m_initialized, impl, memoryInfo, allocations, vendorLive>>
    /\ LET requiredSize == MulU32(MulU32(U32(width), U32(height)), U32(4))
           call(result, log) == Call("createMetalTexture", ptr, <<width, height>>, result, log,
                                     <<>>)
       IN IF ~m_initialized THEN last' = call("null", "not initialized")
          ELSE IF ~impl.metalDevice THEN last' = call("null", "Metal device not initialized")
          ELSE IF ptr \notin DOMAIN allocations
          THEN last' = call("null", "not a valid GPU allocation")
          ELSE IF \/ allocations[ptr] \div 65536 < requiredSize[2]
                  \/ /\ allocations[ptr] \div 65536 = requiredSize[2]
                     /\ allocations[ptr] % 65536 < requiredSize[1]
          THEN last' = call("null", "allocation too small")
          ELSE last' = call("texture", "creating")

NextCore ==
    \/ \E deviceID \in DeviceIDs, forceInit \in BOOLEAN, env \in InitEnvs :
           initialize(deviceID, forceInit, env.found, env.openOk, env.dlopenOk, env.syms,
                      env.nvInitOk)
    \/ shutdown
    \/ \E size \in Sizes, ptr \in Ptrs \cup {NULL} : allocateMemory(size, ptr)
    \/ \E ptr \in Ptrs : freeMemory(ptr)
    \/ \E dst \in Ptrs, size \in Sizes : copyHostToDevice(dst, size)
    \/ \E src \in Ptrs, size \in Sizes : copyDeviceToHost(src, size)

\* allocations and the textures made over them
NextTexture ==
    \/ \E nvInitOk \in BOOLEAN :
          initialize(GTX970, FALSE, TRUE, TRUE, TRUE, DriverSymbols, nvInitOk)
    \/ shutdown
    \/ \E size \in Sizes, ptr \in Ptrs \cup {NULL} : allocateMemory(size, ptr)
    \/ \E ptr \in Ptrs : freeMemory(ptr)
    \/ \E ptr \in Ptrs \cup {NULL}, wh \in {<<1, 1>>, <<32, 32>>, <<64, 64>>, <<32768, 32768>>} :
          createMetalTexture(ptr, wh[1], wh[2])

\* initialization, shutdown and the command buffers of the bridge
NextCoreCmd ==
    \/ \E nvInitOk \in BOOLEAN :
           initialize(GTX970, FALSE, TRUE, TRUE, TRUE, DriverSymbols, nvInitOk)
    \/ shutdown
    \/ \E relock \in RelockOutcomes, ptr \in Ptrs \cup {NULL} : createCommandBuffer(relock, ptr)
    \/ \E id \in BufferIds, vendorOk \in BOOLEAN : submitCommandBuffer(id, vendorOk)
    \/ \E id \in BufferIds, vendorOk \in BOOLEAN : waitForCommandBuffer(id, vendorOk)

\* the bridge on a host whose driver library may lack one of the five symbols
NextDriver ==
    \/ \E syms \in {DriverSymbols} \cup {DriverSymbols \ {s} : s \in DriverSymbols} :
           initialize(GTX970, FALSE, TRUE, TRUE, TRUE, syms, TRUE)
    \/ shutdown
    \/ \E ptr \in {1, NULL} : allocateMemory(4096, ptr)
    \/ \E relock \in RelockOutcomes : createCommandBuffer(relock, 2)
    \/ submitCommandBuffer(1, TRUE)
    \/ waitForCommandBuffer(1, TRUE)

-----------------------------------------------------------------------------
(* The Metal layer: fingerprints *)

\* An unsigned integer of n*16 bits is a sequence of n 16-bit limbs, least
\* significant first: uint32_t has two limbs, uint64_t has four.
Zero32 == <<0, 0>>

Zero64 == <<0, 0, 0, 0>>

\* ((hash << 5) + hash) + a, truncated to the width of hash
RECURSIVE MulAddLimbs(_, _, _, _)
MulAddLimbs(h, a, i, carry) ==
    IF i > Len(h) THEN <<>>
    ELSE LET t == h[i] * 33 + a[i] + carry
         IN <<t % 65536>> \o MulAddLimbs(h, a, i + 1, t \div 65536)

HashStep(h, a) == MulAddLimbs(h, a, 1, 0)

\* shaderSource[i] is a char: signed, sign-extended when added to the uint32_t
CharAddend32(b) == IF b < 128 THEN <<b, 0>> ELSE <<65280 + b, 65535>>

\* vertexBytes[i] is a uint8_t
ByteAddend64(b) == <<b, 0, 0, 0>>

\* the loop over the source text in NVBridgeMetalCompileShader
RECURSIVE HashSource(_, _)
HashSource(h, src) ==
    IF src = <<>> THEN h
    ELSE HashSource(HashStep(h, CharAddend32(Head(src))), Tail(src))

\* the loops over shader and descriptor bytes in the pipeline-state creators
RECURSIVE HashBytes(_, _)
HashBytes(h, bytes) ==
    IF bytes = <<>> THEN h
    ELSE HashBytes(HashStep(h, ByteAddend64(Head(bytes))), Tail(bytes))

\* quotient and remainder of a limb number by 10, from the top limb down to limb i
RECURSIVE DivTen(_, _, _)
DivTen(h, i, rem) ==
    IF i = 0 THEN [q |-> <<>>, r |-> rem]
    ELSE LET cur  == rem * 65536 + h[i]
             rest == DivTen(h, i - 1, cur % 10)
         IN [q |-> Append(rest.q, cur \div 10), r |-> rest.r]

IsZero(h) == \A i \in 1..Len(h) : h[i] = 0

\* what %u prints
RECURSIVE Decimal(_)
Decimal(h) ==
    LET d == DivTen(h, Len(h), 0)
    IN IF IsZero(d.q) THEN ToString(d.r) ELSE Decimal(d.q) \o ToString(d.r)

\* snprintf(cacheKey, sizeof(cacheKey), "shader_%u_%u", shaderType, hashValue)
CacheKey(shaderType, hashValue) ==
    "shader_" \o Decimal(<<shaderType, 0>>) \o "_" \o Decimal(hashValue)

\* the key NVBridgeMetalCompileShader builds for a source text and a shader type
MakeShaderKey(src, shaderType) == CacheKey(shaderType, HashSource(Zero32, src))

\* the hash NVBridgeMetalCreatePipelineState computes
RenderHash(vertex, fragment, desc) ==
    HashBytes(HashBytes(HashBytes(Zero64, vertex), fragment), desc)

\* the compute hash without its last step
ComputeHashNoSalt(compute, desc) ==
    HashBytes(HashBytes(Zero64, compute), desc)

\* the hash NVBridgeMetalCreateComputePipelineState computes; 0xC0FFEE = 192 * 65536 + 65518
ComputeHash(compute, desc) ==
    HashStep(HashBytes(HashBytes(Zero64, compute), desc), <<65518, 192, 0, 0>>)

-----------------------------------------------------------------------------
(* The Metal layer: shader cache *)

\* capacity of the shader cache in the model (256 in the source)
MAX_SHADER_CACHE_ENTRIES == 2

\* capacity of the pipeline cache in the model (64 in the source)
MAX_PIPELINE_CACHE_ENTRIES == 2

\* addresses IOMalloc can hand out for pipeline states: 1..MaxHandle
MaxHandle == 4

METAL_SHADER_TYPE_VERTEX == 1

METAL_SHADER_TYPE_FRAGMENT == 2

\* shader types a client passes: two valid ones and one that is not a shader type
ShaderTypes == {METAL_SHADER_TYPE_VERTEX, METAL_SHADER_TYPE_FRAGMENT, 9}

ValidShaderTypes == {METAL_SHADER_TYPE_VERTEX, METAL_SHADER_TYPE_FRAGMENT, 3, 4}

\* shader source texts, as their bytes: "a" and a text whose byte is above 127
Sources == {<<97>>, <<200>>}

\* the keys of the model's inputs, computed once
ShaderKeyTable == [x \in Sources \X ValidShaderTypes |-> MakeShaderKey(x[1], x[2])]

ShaderKey(src, shaderType) == ShaderKeyTable[<<src, shaderType>>]

\* a payload: nullptr, or a buffer filled with one byte value
NullShader == [null |-> TRUE, fill |-> 0]

Filled(b) == [null |-> FALSE, fill |-> b]

\* a zeroed ShaderCacheEntry
EmptyShaderEntry == [key |-> "", shader |-> NullShader, size |-> 0]

\* what compileNVPTXToBinary produces: 1024 bytes of 0xAA
CompiledBinary == [shader |-> Filled(170), size |-> 1024]

\* bytes a read through a null pointer can yield when it does not fault
GarbageFills == {0, 170}

\* a scan that starts one slot too late
FindShaderSkipFirst(cache, entries, key) ==
    IF \E i \in 2..entries : cache[i].key = key
    THEN CHOOSE i \in 2..entries :
             cache[i].key = key /\ \A j \in 2..(i - 1) : cache[j].key # key
    ELSE 0

\* first slot below gShaderCacheEntries whose key is key, 0 if none
FindShader(cache, entries, key) ==
    IF \E i \in 1..entries : cache[i].key = key
    THEN CHOOSE i \in 1..entries :
             cache[i].key = key /\ \A j \in 1..(i - 1) : cache[j].key # key
    ELSE 0

\* lookupShaderInCache(key, shader, size): the outcomes for one IOMalloc result.
\* A matching slot whose payload pointer is null is read through memcpy: the
\* kernel faults, or the copy carries whatever was read.
lookupShaderInCache(cache, entries, key, allocOk) ==
    LET i == FindShader(cache, entries, key)
    IN IF i = 0 THEN {[found |-> FALSE, crash |-> FALSE, shader |-> NullShader, size |-> 0]}
       ELSE IF ~allocOk
       THEN {[found |-> FALSE, crash |-> FALSE, shader |-> NullShader, size |-> cache[i].size]}
       ELSE IF cache[i].shader.null
       THEN {[found |-> FALSE, crash |-> TRUE, shader |-> NullShader, size |-> cache[i].size]}
            \cup {[found |-> TRUE, crash |-> FALSE, shader |-> Filled(g),
                   size |-> cache[i].size] : g \in GarbageFills}
       ELSE {[found |-> TRUE, crash |-> FALSE, shader |-> cache[i].shader,
              size |-> cache[i].size]}

\* addShaderToCache replacing the last slot, not the first, when the table is full
addShaderToCacheEvictLast(cache, entries, key, shader, size, allocOk) ==
    LET i == FindShader(cache, entries, key)
        stored == IF allocOk THEN shader ELSE NullShader
        slot == IF i # 0 THEN i
                ELSE IF entries < MAX_SHADER_CACHE_ENTRIES THEN entries + 1
                ELSE MAX_SHADER_CACHE_ENTRIES
    IN [cache |-> [cache EXCEPT ![slot].key = key,
                                ![slot].shader = stored,
                                ![slot].size = IF allocOk THEN size ELSE @],
        entries |-> IF i = 0 /\ entries < MAX_SHADER_CACHE_ENTRIES /\ allocOk
                    THEN entries + 1 ELSE entries,
        status |-> IF allocOk THEN "kIOReturnSuccess" ELSE "kIOReturnNoMemory"]

\* addShaderToCache(key, shader, size) for one IOMalloc result:
\* the new table, the new entry count and the status returned
addShaderToCache(cache, entries, key, shader, size, allocOk) ==
    LET i == FindShader(cache, entries, key)
        stored == IF allocOk THEN shader ELSE NullShader
    IN IF i # 0
       THEN \* already exists, update
            [cache |-> [cache EXCEPT ![i].shader = stored,
                                     ![i].size = IF allocOk THEN size ELSE @],
             entries |-> entries,
             status |-> IF allocOk THEN "kIOReturnSuccess" ELSE "kIOReturnNoMemory"]
       ELSE IF entries < MAX_SHADER_CACHE_ENTRIES
       THEN \* not found, add new entry
            [cache |-> [cache EXCEPT ![entries + 1].key = key,
                                     ![entries + 1].shader = stored,
                                     ![entries + 1].size = IF allocOk THEN size ELSE @],
             entries |-> IF allocOk THEN entries + 1 ELSE entries,
             status |-> IF allocOk THEN "kIOReturnSuccess" ELSE "kIOReturnNoMemory"]
       ELSE \* cache is full, replace the first entry
            [cache |-> [cache EXCEPT ![1].key = key,
                                     ![1].shader = stored,
                                     ![1].size = IF allocOk THEN size ELSE @],
             entries |-> entries,
             status |-> IF allocOk THEN "kIOReturnSuccess" ELSE "kIOReturnNoMemory"]

NoInput == [kind |-> "none", a |-> <<>>, b |-> <<>>, d |-> <<>>]

NoMetalCall ==
    [op |-> "none", src |-> <<>>, type |-> 0, input |-> NoInput, result |-> "none",
     hit |-> FALSE, translated |-> FALSE, compiled |-> FALSE, added |-> "none",
     shader |-> NullShader, size |-> 0, handle |-> 0, allocsOk |-> TRUE,
     again |-> FALSE]

\* the record of a Metal-layer call; again: the call before it was the same
\* operation on the same arguments, succeeded, and all its allocations succeeded
MetalCall(op, src, type, input, result, hit, translated, compiled, added, shader, size, handle, allocsOk) ==
    [op |-> op, src |-> src, type |-> type, input |-> input, result |-> result,
     hit |-> hit, translated |-> translated, compiled |-> compiled, added |-> added,
     shader |-> shader, size |-> size, handle |-> handle, allocsOk |-> allocsOk,
     again |-> /\ mlast.op = op /\ mlast.src = src /\ mlast.type = type
               /\ mlast.input = input /\ mlast.result = "kIOReturnSuccess"
               /\ mlast.allocsOk]

\* createShaderCache: both tables zeroed
createShaderCache ==
    [shaderCache |-> [i \in 1..MAX_SHADER_CACHE_ENTRIES |-> EmptyShaderEntry],
     shaderEntries |-> 0,
     pipelineCache |-> [i \in 1..MAX_PIPELINE_CACHE_ENTRIES |->
                           [hash |-> Zero64, pipelineState |-> 0]],
     pipelineEntries |-> 0]

\* NVBridgeMetalInitialize without the call of createShaderCache
NVBridgeMetalInitializeKeepsTables(argsOk) ==
    /\ UNCHANGED <<coreVars, cmdVars, concVars, arcVars, libVars, xeVars, cudaVars>>
    /\ ~crashed
    /\ UNCHANGED <<nextHandle, crashed, issued, allocFailed>>
    /\ UNCHANGED <<gShaderCache, gShaderCacheEntries, gPipelineCache, gPipelineCacheEntries>>
    /\ mlast' = MetalCall("Initialize", <<>>, 0, NoInput,
                          IF gMetalInitialized \/ argsOk THEN "kIOReturnSuccess"
                                                         ELSE "kIOReturnBadArgument",
                          FALSE, FALSE, FALSE, "none", NullShader, 0, 0, TRUE)
    /\ gMetalInitialized' = (gMetalInitialized \/ argsOk)

\* NVBridgeMetalInitialize(version, gpuInfo); argsOk: gpuInfo is not null and
\* version is not kNVBridgeMetalVersionUnknown
NVBridgeMetalInitialize(argsOk) ==
    /\ UNCHANGED <<coreVars, cmdVars, concVars, arcVars, libVars, xeVars, cudaVars>>
    /\ ~crashed
    /\ UNCHANGED <<nextHandle, crashed, issued>>
    /\ IF gMetalInitialized
       THEN /\ mlast' = MetalCall("Initialize", <<>>, 0, NoInput, "kIOReturnSuccess",
                                  FALSE, FALSE, FALSE, "none", NullShader, 0, 0, TRUE)
            /\ UNCHANGED <<gMetalInitialized, gShaderCache, gShaderCacheEntries,
                           gPipelineCache, gPipelineCacheEntries, allocFailed>>
       ELSE IF ~argsOk
       THEN /\ mlast' = MetalCall("Initialize", <<>>, 0, NoInput, "kIOReturnBadArgument",
                                  FALSE, FALSE, FALSE, "none", NullShader, 0, 0, TRUE)
            /\ UNCHANGED <<gMetalInitialized, gShaderCache, gShaderCacheEntries,
                           gPipelineCache, gPipelineCacheEntries, allocFailed>>
       ELSE /\ mlast' = MetalCall("Initialize", <<>>, 0, NoInput, "kIOReturnSuccess",
                                  FALSE, FALSE, FALSE, "none", NullShader, 0, 0, TRUE)
            /\ gShaderCache' = createShaderCache.shaderCache
            /\ gShaderCacheEntries' = createShaderCache.shaderEntries
            /\ gPipelineCache' = createShaderCache.pipelineCache
            /\ gPipelineCacheEntries' = createShaderCache.pipelineEntries
            /\ gMetalInitialized' = TRUE
            /\ allocFailed' = FALSE

\* NVBridgeMetalShutdown
NVBridgeMetalShutdown ==
    /\ UNCHANGED <<coreVars, cmdVars, concVars, arcVars, libVars, xeVars, cudaVars>>
    /\ ~crashed
    /\ UNCHANGED <<nextHandle, crashed, allocFailed>>
    /\ issued' = [x \in DOMAIN issued |-> 0]
    /\ mlast' = MetalCall("Shutdown", <<>>, 0, NoInput, "kIOReturnSuccess",
                          FALSE, FALSE, FALSE, "none", NullShader, 0, 0, TRUE)
    /\ IF ~gMetalInitialized
       THEN UNCHANGED <<gMetalInitialized, gShaderCache, gShaderCacheEntries,
                        gPipelineCache, gPipelineCacheEntries>>
       ELSE /\ gShaderCache' =
                  [i \in 1..MAX_SHADER_CACHE_ENTRIES |->
                      IF i <= gShaderCacheEntries /\ ~gShaderCache[i].shader.null
                      THEN [gShaderCache[i] EXCEPT !.shader = NullShader, !.size = 0]
                      ELSE gShaderCache[i]]
            /\ gShaderCacheEntries' = 0
            /\ gPipelineCache' =
                  [i \in 1..MAX_PIPELINE_CACHE_ENTRIES |->
                      IF i <= gPipelineCacheEntries
                      THEN [gPipelineCache[i] EXCEPT !.pipelineState = 0]
                      ELSE gPipelineCache[i]]
            /\ gPipelineCacheEntries' = 0
            /\ gMetalInitialized' = FALSE

\* translateMetalShaderToNVPTX: the status for one result of its IOMalloc
translateMetalShaderToNVPTX(allocOk) ==
    IF allocOk THEN "kIOReturnSuccess" ELSE "kIOReturnNoMemory"

\* compileNVPTXToBinary: the status for one result of its IOMalloc
compileNVPTXToBinary(allocOk) ==
    IF allocOk THEN "kIOReturnSuccess" ELSE "kIOReturnNoMemory"

\* NVBridgeMetalCompileShader(shaderSource, shaderType, compiledShader, compiledSize);
\* the four booleans are the results of the IOMalloc in lookupShaderInCache,
\* translateMetalShaderToNVPTX, compileNVPTXToBinary and addShaderToCache
NVBridgeMetalCompileShader(src, type, lookupOk, translateOk, compileOk, addOk) ==
    /\ UNCHANGED <<coreVars, cmdVars, concVars, arcVars, libVars, xeVars, cudaVars>>
    /\ ~crashed
    /\ UNCHANGED <<gMetalInitialized, gPipelineCache, gPipelineCacheEntries, nextHandle,
                   issued>>
    /\ IF ~gMetalInitialized
       THEN /\ mlast' = MetalCall("CompileShader", src, type, NoInput, "kIOReturnNotReady",
                                  FALSE, FALSE, FALSE, "none", NullShader, 0, 0, TRUE)
            /\ UNCHANGED <<gShaderCache, gShaderCacheEntries, allocFailed, crashed>>
       ELSE IF type \notin ValidShaderTypes
       THEN /\ mlast' = MetalCall("CompileShader", src, type, NoInput,
                                  "kIOReturnBadArgument",
                                  FALSE, FALSE, FALSE, "none", NullShader, 0, 0, TRUE)
            /\ UNCHANGED <<gShaderCache, gShaderCacheEntries, allocFailed, crashed>>
       ELSE \E look \in lookupShaderInCache(gShaderCache, gShaderCacheEntries,
                                            ShaderKey(src, type), lookupOk) :
            LET present == FindShader(gShaderCache, gShaderCacheEntries,
                                      ShaderKey(src, type)) # 0
                lookFail == present /\ ~lookupOk
            IN IF look.crash
               THEN /\ crashed' = TRUE
                    /\ mlast' = MetalCall("CompileShader", src, type, NoInput, "panic",
                                  FALSE, FALSE, FALSE, "none", NullShader, 0, 0, TRUE)
                    /\ UNCHANGED <<gShaderCache, gShaderCacheEntries, allocFailed>>
               ELSE IF look.found
               THEN /\ mlast' = MetalCall("CompileShader", src, type, NoInput,
                                  "kIOReturnSuccess", TRUE, FALSE, FALSE, "none",
                                  look.shader, look.size, 0, TRUE)
                    /\ UNCHANGED <<gShaderCache, gShaderCacheEntries, allocFailed, crashed>>
               ELSE IF translateMetalShaderToNVPTX(translateOk) # "kIOReturnSuccess"
               THEN /\ mlast' = MetalCall("CompileShader", src, type, NoInput,
                                  translateMetalShaderToNVPTX(translateOk),
                                  FALSE, TRUE, FALSE, "none",
                                  NullShader, 0, 0, FALSE)
                    /\ allocFailed' = TRUE
                    /\ UNCHANGED <<gShaderCache, gShaderCacheEntries, crashed>>
               ELSE IF compileNVPTXToBinary(compileOk) # "kIOReturnSuccess"
               THEN /\ mlast' = MetalCall("CompileShader", src, type, NoInput,
                                  compileNVPTXToBinary(compileOk),
                                  FALSE, TRUE, TRUE, "none",
                                  NullShader, 1024, 0, FALSE)
                    /\ allocFailed' = TRUE
                    /\ UNCHANGED <<gShaderCache, gShaderCacheEntries, crashed>>
               ELSE LET add == addShaderToCache(gShaderCache, gShaderCacheEntries,
                                                ShaderKey(src, type),
                                                CompiledBinary.shader,
                                                CompiledBinary.size, addOk)
                    IN /\ gShaderCache' = add.cache
                       /\ gShaderCacheEntries' = add.entries
                       /\ allocFailed' = (allocFailed \/ lookFail \/ ~addOk)
                       /\ mlast' = MetalCall("CompileShader", src, type, NoInput,
                                  "kIOReturnSuccess", FALSE, TRUE, TRUE, add.status,
                                  CompiledBinary.shader, CompiledBinary.size, 0,
                                  ~lookFail /\ addOk)
                       /\ UNCHANGED crashed

-----------------------------------------------------------------------------
(* The Metal layer: pipeline-state cache *)

RenderInput(vertex, fragment, desc) ==
    [kind |-> "render", a |-> vertex, b |-> fragment, d |-> desc]

ComputeInput(compute, desc) ==
    [kind |-> "compute", a |-> compute, b |-> <<>>, d |-> desc]

\* render pipelines a client asks for: vertex bytes, fragment bytes (<<>> for a
\* null fragment shader), descriptor bytes. The first two have the same hash;
\* the last has an empty vertex shader and is rejected.
RenderInputs ==
    {RenderInput(<<1>>, <<2>>, <<0>>), RenderInput(<<1, 2>>, <<>>, <<0>>),
     RenderInput(<<3>>, <<>>, <<0>>), RenderInput(<<4>>, <<5>>, <<1>>),
     RenderInput(<<>>, <<>>, <<0>>)}

ComputeInputs == {ComputeInput(<<1, 2>>, <<0>>)}

PipelineInputs == RenderInputs \cup ComputeInputs

\* the hash a creator computes for its input
MakePipelineHash(input) ==
    IF input.kind = "render" THEN RenderHash(input.a, input.b, input.d)
    ELSE ComputeHash(input.a, input.d)

\* the hashes of the model's inputs, computed once
PipelineHashTable == [x \in PipelineInputs |-> MakePipelineHash(x)]

PipelineHash(input) == PipelineHashTable[input]

\* a scan of the pipeline table that starts one slot too late
lookupPipelineSkipFirst(cache, entries, hash) ==
    IF \E i \in 2..entries : cache[i].hash = hash /\ cache[i].pipelineState # 0
    THEN CHOOSE i \in 2..entries :
             /\ cache[i].hash = hash /\ cache[i].pipelineState # 0
             /\ \A j \in 2..(i - 1) : ~(cache[j].hash = hash /\ cache[j].pipelineState # 0)
    ELSE 0

\* the scan under gPipelineCacheLock: first slot below gPipelineCacheEntries with
\* this hash and a non-null pipeline state, 0 if none
lookupPipeline(cache, entries, hash) ==
    IF \E i \in 1..entries : cache[i].hash = hash /\ cache[i].pipelineState # 0
    THEN CHOOSE i \in 1..entries :
             /\ cache[i].hash = hash /\ cache[i].pipelineState # 0
             /\ \A j \in 1..(i - 1) : ~(cache[j].hash = hash /\ cache[j].pipelineState # 0)
    ELSE 0

\* a store that counts every pipeline it is given, room or not
storePipelineUncapped(cache, entries, hash, state) ==
    [cache |-> IF entries < MAX_PIPELINE_CACHE_ENTRIES
               THEN [cache EXCEPT ![entries + 1] = [hash |-> hash, pipelineState |-> state]]
               ELSE cache,
     entries |-> entries + 1]

\* "Store in cache": append while there is room, else replace the first entry
storePipeline(cache, entries, hash, state) ==
    IF entries < MAX_PIPELINE_CACHE_ENTRIES
    THEN [cache |-> [cache EXCEPT ![entries + 1] = [hash |-> hash, pipelineState |-> state]],
          entries |-> entries + 1]
    ELSE [cache |-> [cache EXCEPT ![1] = [hash |-> hash, pipelineState |-> state]],
          entries |-> entries]

\* a creator that puts the hash in the table before it has a pipeline state
CreatePipelineStoreFirst(op, input, allocOk) ==
    LET st == storePipeline(gPipelineCache, gPipelineCacheEntries, PipelineHash(input), 0)
    IN /\ ~allocOk
       /\ gPipelineCache' = st.cache
       /\ gPipelineCacheEntries' = st.entries
       /\ allocFailed' = TRUE
       /\ mlast' = MetalCall(op, <<>>, 0, input, "kIOReturnNoMemory", FALSE, FALSE,
                             FALSE, "none", NullShader, 0, 0, FALSE)
       /\ UNCHANGED <<nextHandle, issued>>

\* the body shared by the two creators, from the cache check on
CreatePipeline(op, input, allocOk) ==
    LET hash == PipelineHash(input)
        i    == lookupPipeline(gPipelineCache, gPipelineCacheEntries, hash)
    IN IF i # 0
       THEN /\ mlast' = MetalCall(op, <<>>, 0, input, "kIOReturnSuccess", TRUE, FALSE,
                                  FALSE, "none", NullShader, 0,
                                  gPipelineCache[i].pipelineState, TRUE)
            /\ issued' = [issued EXCEPT ![input] = gPipelineCache[i].pipelineState]
            /\ UNCHANGED <<gPipelineCache, gPipelineCacheEntries, nextHandle, allocFailed>>
       ELSE IF ~allocOk
       THEN /\ mlast' = MetalCall(op, <<>>, 0, input, "kIOReturnNoMemory", FALSE, FALSE,
                                  FALSE, "none", NullShader, 0, 0, FALSE)
            /\ allocFailed' = TRUE
            /\ UNCHANGED <<gPipelineCache, gPipelineCacheEntries, nextHandle, issued>>
       ELSE LET st == storePipeline(gPipelineCache, gPipelineCacheEntries, hash, nextHandle)
            IN /\ nextHandle <= MaxHandle
               /\ gPipelineCache' = st.cache
               /\ gPipelineCacheEntries' = st.entries
               /\ nextHandle' = nextHandle + 1
               /\ issued' = [issued EXCEPT ![input] = nextHandle]
               /\ mlast' = MetalCall(op, <<>>, 0, input, "kIOReturnSuccess", FALSE, FALSE,
                                     FALSE, "stored", NullShader, 0, nextHandle, TRUE)
               /\ UNCHANGED allocFailed

\* the argument checks both creators make before hashing
CreatePipelineChecked(op, input, allocOk) ==
    /\ UNCHANGED <<coreVars, cmdVars, concVars, arcVars, libVars, xeVars, cudaVars>>
    /\ ~crashed
    /\ UNCHANGED <<gMetalInitialized, gShaderCache, gShaderCacheEntries, crashed>>
    /\ IF ~gMetalInitialized
       THEN /\ mlast' = MetalCall(op, <<>>, 0, input, "kIOReturnNotReady", FALSE, FALSE,
                                  FALSE, "none", NullShader, 0, 0, TRUE)
            /\ UNCHANGED <<gPipelineCache, gPipelineCacheEntries, nextHandle, allocFailed,
                           issued>>
       ELSE IF input.a = <<>>
       THEN /\ mlast' = MetalCall(op, <<>>, 0, input, "kIOReturnBadArgument", FALSE, FALSE,
                                  FALSE, "none", NullShader, 0, 0, TRUE)
            /\ UNCHANGED <<gPipelineCache, gPipelineCacheEntries, nextHandle, allocFailed,
                           issued>>
       ELSE CreatePipeline(op, input, allocOk)

\* NVBridgeMetalCreatePipelineState(vertexShader, vertexShaderSize, fragmentShader,
\* fragmentShaderSize, pipelineDesc, pipelineState); allocOk: IOMalloc succeeds
NVBridgeMetalCreatePipelineState(input, allocOk) ==
    CreatePipelineChecked("CreatePipelineState", input, allocOk)

\* NVBridgeMetalCreateComputePipelineState(computeShader, computeShaderSize,
\* pipelineDesc, pipelineState)
NVBridgeMetalCreateComputePipelineState(input, allocOk) ==
    CreatePipelineChecked("CreateComputePipelineState", input, allocOk)

MetalInit ==
    /\ gMetalInitialized = FALSE
    /\ gShaderCache = createShaderCache.shaderCache
    /\ gShaderCacheEntries = 0
    /\ gPipelineCache = createShaderCache.pipelineCache
    /\ gPipelineCacheEntries = 0
    /\ nextHandle = 1
    /\ allocFailed = FALSE
    /\ crashed = FALSE
    /\ issued = [x \in PipelineInputs |-> 0]
    /\ mlast = NoMetalCall

\* results of the four IOMalloc calls of one compilation: all succeed, one
\* fails, or the two inside the cache functions fail
AllocOutcomes ==
    {<<TRUE, TRUE, TRUE, TRUE>>, <<FALSE, TRUE, TRUE, TRUE>>, <<TRUE, FALSE, TRUE, TRUE>>,
     <<TRUE, TRUE, FALSE, TRUE>>, <<TRUE, TRUE, TRUE, FALSE>>,
     <<FALSE, TRUE, TRUE, FALSE>>}

NextShader ==
    \/ \E argsOk \in BOOLEAN : NVBridgeMetalInitialize(argsOk)
    \/ NVBridgeMetalShutdown
    \/ \E src \in Sources, type \in ShaderTypes, ok \in AllocOutcomes :
          NVBridgeMetalCompileShader(src, type, ok[1], ok[2], ok[3], ok[4])

NextPipe ==
    \/ \E argsOk \in BOOLEAN : NVBridgeMetalInitialize(argsOk)
    \/ NVBridgeMetalShutdown
    \/ \E input \in RenderInputs, allocOk \in BOOLEAN :
          NVBridgeMetalCreatePipelineState(input, allocOk)
    \/ \E input \in ComputeInputs, allocOk \in BOOLEAN :
          NVBridgeMetalCreateComputePipelineState(input, allocOk)

\* the shaders compiled when both caches are in play: three keys, one more
\* than the cache holds, and a shader type that is rejected
ConcShaders ==
    {<<<<97>>, METAL_SHADER_TYPE_VERTEX>>, <<<<97>>, METAL_SHADER_TYPE_FRAGMENT>>,
     <<<<200>>, METAL_SHADER_TYPE_VERTEX>>, <<<<200>>, 9>>}

\* the pipelines created when both caches are in play: one render, one compute
ConcPipelines == {RenderInput(<<1>>, <<2>>, <<0>>), ComputeInput(<<1, 2>>, <<0>>)}

\* compilations and pipeline creations of one client, one call after the other
NextMetal ==
    \/ \E argsOk \in BOOLEAN : NVBridgeMetalInitialize(argsOk)
    \/ \E sh \in ConcShaders, ok \in AllocOutcomes :
          NVBridgeMetalCompileShader(sh[1], sh[2], ok[1], ok[2], ok[3], ok[4])
    \/ \E input \in {x \in ConcPipelines : x.kind = "render"}, allocOk \in BOOLEAN :
          NVBridgeMetalCreatePipelineState(input, allocOk)
    \/ \E input \in {x \in ConcPipelines : x.kind = "compute"}, allocOk \in BOOLEAN :
          NVBridgeMetalCreateComputePipelineState(input, allocOk)

-----------------------------------------------------------------------------
(* The Metal layer called from several threads *)

\* client threads that call into the layer at the same time
Threads == {"t1", "t2"}

\* a thread that is in no call
IdleThread == [pc |-> "idle", key |-> "", input |-> NoInput, held |-> {}]

\* no thread other than t is inside a section of the spin lock
LockFree(lock, t) == \A u \in Threads \ {t} : lock \notin threads[u].held

\* a lookup that returns, on a miss, without OSSpinLockUnlock
CompileShaderLookupKeepsLock(t, src, type, lookupOk) ==
    /\ UNCHANGED <<coreVars, cmdVars, m_mutex, arcVars, libVars, xeVars, cudaVars>>
    /\ ~crashed
    /\ threads[t].pc = "idle"
    /\ LockFree("gShaderCacheLock", t)
    /\ UNCHANGED <<gMetalInitialized, gShaderCache, gShaderCacheEntries, gPipelineCache,
                   gPipelineCacheEntries, nextHandle, issued, mlast>>
    /\ IF ~gMetalInitialized \/ type \notin ValidShaderTypes
       THEN UNCHANGED <<threads, allocFailed, crashed>>
       ELSE \E look \in lookupShaderInCache(gShaderCache, gShaderCacheEntries,
                                            ShaderKey(src, type), lookupOk) :
            IF look.crash
            THEN /\ crashed' = TRUE
                 /\ UNCHANGED <<threads, allocFailed>>
            ELSE IF look.found
            THEN UNCHANGED <<threads, allocFailed, crashed>>
            ELSE /\ threads' = [threads EXCEPT ![t] = [pc |-> "compiling",
                                                        key |-> ShaderKey(src, type),
                                                        input |-> NoInput, held |-> {"gShaderCacheLock"}]]
                 /\ allocFailed' = (allocFailed \/ ~lookupOk)
                 /\ UNCHANGED crashed

\* NVBridgeMetalCompileShader in thread t up to the return of
\* lookupShaderInCache, which runs under gShaderCacheLock; on a miss the thread
\* goes on to translate and compile with the lock released
CompileShaderLookup(t, src, type, lookupOk) ==
    /\ UNCHANGED <<coreVars, cmdVars, m_mutex, arcVars, libVars, xeVars, cudaVars>>
    /\ ~crashed
    /\ threads[t].pc = "idle"
    /\ LockFree("gShaderCacheLock", t)
    /\ UNCHANGED <<gMetalInitialized, gShaderCache, gShaderCacheEntries, gPipelineCache,
                   gPipelineCacheEntries, nextHandle, issued, mlast>>
    /\ IF ~gMetalInitialized \/ type \notin ValidShaderTypes
       THEN UNCHANGED <<threads, allocFailed, crashed>>
       ELSE \E look \in lookupShaderInCache(gShaderCache, gShaderCacheEntries,
                                            ShaderKey(src, type), lookupOk) :
            IF look.crash
            THEN /\ crashed' = TRUE
                 /\ UNCHANGED <<threads, allocFailed>>
            ELSE IF look.found
            THEN UNCHANGED <<threads, allocFailed, crashed>>
            ELSE /\ threads' = [threads EXCEPT ![t] = [pc |-> "compiling",
                                                        key |-> ShaderKey(src, type),
                                                        input |-> NoInput, held |-> {}]]
                 /\ allocFailed' = (allocFailed \/ ~lookupOk)
                 /\ UNCHANGED crashed

\* the rest of NVBridgeMetalCompileShader in thread t: translate and compile
\* without a lock, then addShaderToCache under gShaderCacheLock
CompileShaderAdd(t, translateOk, compileOk, addOk) ==
    /\ UNCHANGED <<coreVars, cmdVars, m_mutex, arcVars, libVars, xeVars, cudaVars>>
    /\ ~crashed
    /\ threads[t].pc = "compiling"
    /\ LockFree("gShaderCacheLock", t)
    /\ UNCHANGED <<gMetalInitialized, gPipelineCache, gPipelineCacheEntries, nextHandle,
                   issued, mlast, crashed>>
    /\ threads' = [threads EXCEPT ![t] = IdleThread]
    /\ IF \/ translateMetalShaderToNVPTX(translateOk) # "kIOReturnSuccess"
          \/ compileNVPTXToBinary(compileOk) # "kIOReturnSuccess"
       THEN /\ allocFailed' = TRUE
            /\ UNCHANGED <<gShaderCache, gShaderCacheEntries>>
       ELSE LET add == addShaderToCache(gShaderCache, gShaderCacheEntries, threads[t].key,
                                        CompiledBinary.shader, CompiledBinary.size, addOk)
            IN /\ gShaderCache' = add.cache
               /\ gShaderCacheEntries' = add.entries
               /\ allocFailed' = (allocFailed \/ ~addOk)

\* NVBridgeMetalCreatePipelineState / NVBridgeMetalCreateComputePipelineState in
\* thread t up to the end of the cache check under gPipelineCacheLock
CreatePipelineLookup(t, input) ==
    /\ UNCHANGED <<coreVars, cmdVars, m_mutex, arcVars, libVars, xeVars, cudaVars>>
    /\ ~crashed
    /\ threads[t].pc = "idle"
    /\ LockFree("gPipelineCacheLock", t)
    /\ UNCHANGED <<metalVars>>
    /\ IF ~gMetalInitialized \/ input.a = <<>>
       THEN UNCHANGED threads
       ELSE IF lookupPipeline(gPipelineCache, gPipelineCacheEntries, PipelineHash(input)) # 0
       THEN UNCHANGED threads
       ELSE threads' = [threads EXCEPT ![t] = [pc |-> "building", key |-> "",
                                               input |-> input, held |-> {}]]

\* the rest of a pipeline creation in thread t: IOMalloc without a lock, then
\* "Store in cache" under gPipelineCacheLock
CreatePipelineStore(t, allocOk) ==
    /\ UNCHANGED <<coreVars, cmdVars, m_mutex, arcVars, libVars, xeVars, cudaVars>>
    /\ ~crashed
    /\ threads[t].pc = "building"
    /\ LockFree("gPipelineCacheLock", t)
    /\ UNCHANGED <<gMetalInitialized, gShaderCache, gShaderCacheEntries, issued, mlast,
                   crashed>>
    /\ threads' = [threads EXCEPT ![t] = IdleThread]
    /\ IF ~allocOk
       THEN /\ allocFailed' = TRUE
            /\ UNCHANGED <<gPipelineCache, gPipelineCacheEntries, nextHandle>>
       ELSE LET st == storePipeline(gPipelineCache, gPipelineCacheEntries,
                                    PipelineHash(threads[t].input), nextHandle)
            IN /\ nextHandle <= MaxHandle
               /\ gPipelineCache' = st.cache
               /\ gPipelineCacheEntries' = st.entries
               /\ nextHandle' = nextHandle + 1
               /\ UNCHANGED allocFailed

\* std::mutex m_mutex, unlocked
FreeMutex == [owner |-> "none", id |-> 0, blocked |-> {}]

ConcInit ==
    /\ threads = [t \in Threads |-> IdleThread]
    /\ m_mutex = FreeMutex

\* results of translating, compiling and the IOMalloc of addShaderToCache in
\* one compilation: all succeed, or one fails
BuildOutcomes ==
    {<<TRUE, TRUE, TRUE>>, <<FALSE, TRUE, TRUE>>, <<TRUE, FALSE, TRUE>>,
     <<TRUE, TRUE, FALSE>>}

NextConc ==
    \/ \E argsOk \in BOOLEAN : NVBridgeMetalInitialize(argsOk)
    \/ \E t \in Threads, sh \in ConcShaders, lookupOk \in BOOLEAN :
          CompileShaderLookup(t, sh[1], sh[2], lookupOk)
    \/ \E t \in Threads, ok \in BuildOutcomes : CompileShaderAdd(t, ok[1], ok[2], ok[3])
    \/ \E t \in Threads, input \in ConcPipelines : CreatePipelineLookup(t, input)
    \/ \E t \in Threads, allocOk \in BOOLEAN : CreatePipelineStore(t, allocOk)

-----------------------------------------------------------------------------
(* NVBridgeCore called from several threads *)

\* the operations of another thread that begin with std::lock_guard on m_mutex
LockedOps == {"allocateMemory", "freeMemory", "submitCommandBuffer"}

BlockedThreads == {b.thread : b \in m_mutex.blocked}

\* m_mutex is unlocked and some thread is free to make a call
CanLock == m_mutex.owner = "none" /\ BlockedThreads # Threads

\* waitForCommandBuffer in thread t from the lock_guard up to the call of
\* nvWaitForCompletion: on the early returns the call is over and the guard is
\* destroyed; otherwise the thread enters the vendor wait holding m_mutex
waitForCommandBufferEnter(t, id) ==
    /\ CanLock
    /\ t \notin BlockedThreads
    /\ IF /\ m_initialized
          /\ "NVWaitForCompletion" \in impl.functions
          /\ id \in 1..Len(commandBuffers)
          /\ commandBuffers[id].submitted
          /\ ~commandBuffers[id].completed
       THEN /\ ~hung
            /\ m_mutex' = [m_mutex EXCEPT !.owner = t, !.id = id]
            /\ UNCHANGED <<coreVars, metalVars, cmdVars, threads, arcVars, libVars, xeVars, cudaVars>>
       ELSE waitForCommandBuffer(id, TRUE)

\* the rest of waitForCommandBuffer in thread t: nvWaitForCompletion returns,
\* the result is recorded and the lock_guard is destroyed
waitForCommandBufferLeave(t, vendorOk) ==
    /\ UNCHANGED <<metalVars, cmdVars, threads, arcVars, libVars, xeVars, cudaVars>>
    /\ m_mutex.owner = t
    /\ UNCHANGED <<m_initialized, impl, memoryInfo, allocations, vendorLive, hung>>
    /\ last' = Call("waitForCommandBuffer", m_mutex.id, 0,
                    IF vendorOk THEN "true" ELSE "false",
                    IF vendorOk THEN "completed" ELSE "failed",
                    <<<<"nvWaitForCompletion", m_mutex.id>>>>)
    /\ commandBuffers' = IF vendorOk
                         THEN [commandBuffers EXCEPT ![m_mutex.id].completed = TRUE]
                         ELSE commandBuffers
    /\ m_mutex' = [m_mutex EXCEPT !.owner = "none", !.id = 0]

\* thread u calls op while another thread owns m_mutex: its lock_guard
\* constructor does not return
lockContended(u, op) ==
    /\ UNCHANGED <<coreVars, metalVars, cmdVars, threads, arcVars, libVars, xeVars, cudaVars>>
    /\ m_mutex.owner \notin {"none", u}
    /\ u \notin BlockedThreads
    /\ m_mutex' = [m_mutex EXCEPT !.blocked = @ \cup {[thread |-> u, op |-> op]}]

\* m_mutex has been unlocked and the blocked thread u gets past its lock_guard
\* constructor; its operation is one of the steps that follow
lockGranted(u) ==
    /\ UNCHANGED <<coreVars, metalVars, cmdVars, threads, arcVars, libVars, xeVars, cudaVars>>
    /\ m_mutex.owner = "none"
    /\ u \in BlockedThreads
    /\ m_mutex' = [m_mutex EXCEPT !.blocked = {b \in @ : b.thread # u}]

\* two threads on one bridge: every operation runs from its lock_guard to its
\* return in one step, except the wait, which stops in nvWaitForCompletion
NextLock ==
    \/ CanLock /\ initialize(GTX970, FALSE, TRUE, TRUE, TRUE, DriverSymbols, TRUE)
    \/ CanLock /\ \E relock \in RelockOutcomes : createCommandBuffer(relock, 2)
    \/ CanLock /\ submitCommandBuffer(1, TRUE)
    \/ CanLock /\ \E ptr \in {1, NULL} : allocateMemory(4096, ptr)
    \/ CanLock /\ freeMemory(1)
    \/ \E t \in Threads : waitForCommandBufferEnter(t, 1)
    \/ \E t \in Threads, vendorOk \in BOOLEAN : waitForCommandBufferLeave(t, vendorOk)
    \/ \E u \in Threads, op \in LockedOps : lockContended(u, op)
    \/ \E u \in Threads : lockGranted(u)

-----------------------------------------------------------------------------
(* NVMetalCommandBuffer and its encoders *)

\* encoders one command buffer hands out
MaxEncoders == 2

\* records handed to NVBridge_SubmitCommand
MaxRecords == 3

\* calls of commit() on the buffer
MaxCommits == 3

NoCmdCall == [op |-> "none", encoder |-> 0, log |-> "none"]

CmdCall(op, encoder, log) == [op |-> op, encoder |-> encoder, log |-> log]

\* NVMetalRenderCommandEncoder::endEncoding / NVMetalComputeCommandEncoder::endEncoding
\* on encoder e: the encoders and the submitted records afterwards
endEncoding(encs, recs, e) ==
    IF encs[e].active
    THEN [encoders |-> [encs EXCEPT ![e].active = FALSE],
          submitted |-> Append(recs, [cmd |-> "end", encoder |-> e])]
    ELSE [encoders |-> encs, submitted |-> recs]

\* encoder creation that does not end the encoder that is active
newCommandEncoderNoEnd(kind) ==
    /\ UNCHANGED <<coreVars, metalVars, concVars, arcVars, libVars, xeVars, cudaVars>>
    /\ UNCHANGED <<committed, completed, flushCalls, flushedAfter, commitCalls, waitCalls, submitted>>
    /\ IF committed
       THEN /\ clast' = CmdCall(kind, 0, "committed")
            /\ UNCHANGED <<activeEncoder, encoders>>
       ELSE /\ Len(encoders) < MaxEncoders
            /\ encoders' = Append(encoders,
                                  [kind |-> kind, active |-> TRUE, pipelineState |-> FALSE])
            /\ activeEncoder' = Len(encoders) + 1
            /\ clast' = CmdCall(kind, Len(encoders) + 1, "created")

\* NVMetalCommandBuffer::renderCommandEncoder / computeCommandEncoder
newCommandEncoder(kind) ==
    /\ UNCHANGED <<coreVars, metalVars, concVars, arcVars, libVars, xeVars, cudaVars>>
    /\ UNCHANGED <<committed, completed, flushCalls, flushedAfter, commitCalls, waitCalls>>
    /\ IF committed
       THEN /\ clast' = CmdCall(kind, 0, "committed")
            /\ UNCHANGED <<activeEncoder, encoders, submitted>>
       ELSE LET ended == IF activeEncoder # 0
                         THEN endEncoding(encoders, submitted, activeEncoder)
                         ELSE [encoders |-> encoders, submitted |-> submitted]
            IN /\ Len(encoders) < MaxEncoders
               /\ Len(ended.submitted) <= MaxRecords
               /\ encoders' = Append(ended.encoders,
                                     [kind |-> kind, active |-> TRUE, pipelineState |-> FALSE])
               /\ submitted' = ended.submitted
               /\ activeEncoder' = Len(encoders) + 1
               /\ clast' = CmdCall(kind, Len(encoders) + 1, "created")

renderCommandEncoder == newCommandEncoder("render")

computeCommandEncoder == newCommandEncoder("compute")

\* setRenderPipelineState / setComputePipelineState on encoder e
setPipelineState(e) ==
    /\ UNCHANGED <<coreVars, metalVars, concVars, arcVars, libVars, xeVars, cudaVars>>
    /\ e \in 1..Len(encoders)
    /\ encoders' = IF encoders[e].active
                   THEN [encoders EXCEPT ![e].pipelineState = TRUE] ELSE encoders
    /\ clast' = CmdCall("setPipelineState", e, IF encoders[e].active THEN "set" ELSE "inactive")
    /\ UNCHANGED <<committed, completed, activeEncoder, submitted, flushCalls, flushedAfter, commitCalls,
                   waitCalls>>

\* drawPrimitives on a render encoder, dispatchThreadgroups on a compute encoder
encodeCommand(e) ==
    /\ UNCHANGED <<coreVars, metalVars, concVars, arcVars, libVars, xeVars, cudaVars>>
    /\ e \in 1..Len(encoders)
    /\ IF encoders[e].active /\ encoders[e].pipelineState
       THEN /\ Len(submitted) < MaxRecords
            /\ submitted' = Append(submitted,
                  [cmd |-> IF encoders[e].kind = "render" THEN "draw" ELSE "dispatch",
                   encoder |-> e])
            /\ clast' = CmdCall("encodeCommand", e, "submitted")
       ELSE /\ UNCHANGED submitted
            /\ clast' = CmdCall("encodeCommand", e, "ignored")
    /\ UNCHANGED <<committed, completed, activeEncoder, encoders, flushCalls, flushedAfter, commitCalls,
                   waitCalls>>

\* the client calls endEncoding() on encoder e
clientEndEncoding(e) ==
    /\ UNCHANGED <<coreVars, metalVars, concVars, arcVars, libVars, xeVars, cudaVars>>
    /\ e \in 1..Len(encoders)
    /\ Len(endEncoding(encoders, submitted, e).submitted) <= MaxRecords
    /\ encoders' = endEncoding(encoders, submitted, e).encoders
    /\ submitted' = endEncoding(encoders, submitted, e).submitted
    /\ clast' = CmdCall("endEncoding", e, IF encoders[e].active THEN "ended" ELSE "inactive")
    /\ UNCHANGED <<committed, completed, activeEncoder, flushCalls, flushedAfter, commitCalls, waitCalls>>

\* commit that leaves the active encoder as it is
commitKeepsEncoder(flushOk) ==
    /\ UNCHANGED <<coreVars, metalVars, concVars, arcVars, libVars, xeVars, cudaVars>>
    /\ commitCalls < MaxCommits
    /\ commitCalls' = commitCalls + 1
    /\ UNCHANGED <<completed, waitCalls, activeEncoder, encoders, submitted>>
    /\ IF committed
       THEN /\ clast' = CmdCall("commit", 0, "already committed")
            /\ UNCHANGED <<committed, flushCalls, flushedAfter>>
       ELSE /\ flushCalls' = flushCalls + 1
            /\ flushedAfter' = Append(flushedAfter, Len(submitted))
            /\ committed' = TRUE
            /\ clast' = CmdCall("commit", 0, IF flushOk THEN "flushed" ELSE "flush failed")

\* commit that flushes first and ends the active encoder afterwards
commitFlushesFirst(flushOk) ==
    /\ UNCHANGED <<coreVars, metalVars, concVars, arcVars, libVars, xeVars, cudaVars>>
    /\ commitCalls < MaxCommits
    /\ commitCalls' = commitCalls + 1
    /\ UNCHANGED <<completed, waitCalls>>
    /\ ~committed
    /\ LET ended == IF activeEncoder # 0
                    THEN endEncoding(encoders, submitted, activeEncoder)
                    ELSE [encoders |-> encoders, submitted |-> submitted]
       IN /\ Len(ended.submitted) <= MaxRecords + 1
          /\ flushCalls' = flushCalls + 1
          /\ flushedAfter' = Append(flushedAfter, Len(submitted))
          /\ encoders' = ended.encoders
          /\ submitted' = ended.submitted
          /\ activeEncoder' = 0
          /\ committed' = TRUE
          /\ clast' = CmdCall("commit", 0, IF flushOk THEN "flushed" ELSE "flush failed")

\* commit without the test of the committed flag: every call flushes
commitUnguarded(flushOk) ==
    /\ UNCHANGED <<coreVars, metalVars, concVars, arcVars, libVars, xeVars, cudaVars>>
    /\ commitCalls < MaxCommits
    /\ commitCalls' = commitCalls + 1
    /\ UNCHANGED <<completed, waitCalls>>
    /\ LET ended == IF activeEncoder # 0
                    THEN endEncoding(encoders, submitted, activeEncoder)
                    ELSE [encoders |-> encoders, submitted |-> submitted]
       IN /\ Len(ended.submitted) <= MaxRecords + 1
          /\ encoders' = ended.encoders
          /\ submitted' = ended.submitted
          /\ activeEncoder' = 0
          /\ flushCalls' = flushCalls + 1
          /\ flushedAfter' = Append(flushedAfter, Len(ended.submitted))
          /\ committed' = TRUE
          /\ clast' = CmdCall("commit", 0, IF flushOk THEN "flushed" ELSE "flush failed")

\* NVMetalCommandBuffer::commit; flushOk is what NVBridge_FlushCommands returns
commit(flushOk) ==
    /\ UNCHANGED <<coreVars, metalVars, concVars, arcVars, libVars, xeVars, cudaVars>>
    /\ commitCalls < MaxCommits
    /\ commitCalls' = commitCalls + 1
    /\ UNCHANGED <<completed, waitCalls>>
    /\ IF committed
       THEN /\ clast' = CmdCall("commit", 0, "already committed")
            /\ UNCHANGED <<committed, activeEncoder, encoders, submitted, flushCalls, flushedAfter>>
       ELSE LET ended == IF activeEncoder # 0
                         THEN endEncoding(encoders, submitted, activeEncoder)
                         ELSE [encoders |-> encoders, submitted |-> submitted]
            IN /\ Len(ended.submitted) <= MaxRecords + 1
               /\ encoders' = ended.encoders
               /\ submitted' = ended.submitted
               /\ activeEncoder' = 0
               /\ flushCalls' = flushCalls + 1
               /\ flushedAfter' = Append(flushedAfter, Len(ended.submitted))
               /\ committed' = TRUE
               /\ clast' = CmdCall("commit", 0, IF flushOk THEN "flushed" ELSE "flush failed")

\* waitUntilCompleted without the test of the committed flag
waitUntilCompletedUnchecked ==
    /\ UNCHANGED <<coreVars, metalVars, concVars, arcVars, libVars, xeVars, cudaVars>>
    /\ UNCHANGED <<committed, activeEncoder, encoders, submitted, flushCalls, flushedAfter, commitCalls>>
    /\ IF completed
       THEN /\ clast' = CmdCall("waitUntilCompleted", 0, "already completed")
            /\ UNCHANGED <<completed, waitCalls>>
       ELSE /\ clast' = CmdCall("waitUntilCompleted", 0, "waited")
            /\ waitCalls' = waitCalls + 1
            /\ completed' = TRUE

\* NVMetalCommandBuffer::waitUntilCompleted
waitUntilCompleted ==
    /\ UNCHANGED <<coreVars, metalVars, concVars, arcVars, libVars, xeVars, cudaVars>>
    /\ UNCHANGED <<committed, activeEncoder, encoders, submitted, flushCalls, flushedAfter, commitCalls>>
    /\ IF ~committed
       THEN /\ clast' = CmdCall("waitUntilCompleted", 0, "uncommitted")
            /\ UNCHANGED <<completed, waitCalls>>
       ELSE IF completed
       THEN /\ clast' = CmdCall("waitUntilCompleted", 0, "already completed")
            /\ UNCHANGED <<completed, waitCalls>>
       ELSE /\ clast' = CmdCall("waitUntilCompleted", 0, "waited")
            /\ waitCalls' = waitCalls + 1
            /\ completed' = TRUE

CmdInit ==
    /\ committed = FALSE
    /\ completed = FALSE
    /\ activeEncoder = 0
    /\ encoders = <<>>
    /\ submitted = <<>>
    /\ flushCalls = 0
    /\ flushedAfter = <<>>
    /\ commitCalls = 0
    /\ waitCalls = 0
    /\ clast = NoCmdCall

NextCmd ==
    \/ renderCommandEncoder
    \/ computeCommandEncoder
    \/ \E e \in 1..MaxEncoders : setPipelineState(e)
    \/ \E e \in 1..MaxEncoders : encodeCommand(e)
    \/ \E e \in 1..MaxEncoders : clientEndEncoding(e)
    \/ \E flushOk \in BOOLEAN : commit(flushOk)
    \/ waitUntilCompleted

-----------------------------------------------------------------------------
(* Both layers from before their initialization to after their shutdown *)

\* one client that sets the two layers up, uses them and shuts them down, with
\* one size, one pointer for its allocation and one for the command buffer,
\* one shader and one render pipeline; nvInitialize may fail
NextLifecycle ==
    \/ \E nvInitOk \in BOOLEAN :
           initialize(GTX970, FALSE, TRUE, TRUE, TRUE, DriverSymbols, nvInitOk)
    \/ shutdown
    \/ \E ptr \in {1, NULL} : allocateMemory(4096, ptr)
    \/ freeMemory(1)
    \/ copyHostToDevice(1, 4096)
    \/ copyDeviceToHost(1, 4096)
    \/ \E relock \in RelockOutcomes : createCommandBuffer(relock, 2)
    \/ submitCommandBuffer(1, TRUE)
    \/ waitForCommandBuffer(1, TRUE)
    \/ NVBridgeMetalInitialize(TRUE)
    \/ NVBridgeMetalShutdown
    \/ NVBridgeMetalCompileShader(<<97>>, METAL_SHADER_TYPE_VERTEX, TRUE, TRUE, TRUE, TRUE)
    \/ NVBridgeMetalCreatePipelineState(RenderInput(<<1>>, <<2>>, <<0>>), TRUE)

-----------------------------------------------------------------------------
(* The kernel-side Intel Arc bridge *)

\* retains ArcBridgeInitialize may take on the PCI device: 0..MaxRetains
MaxRetains == 3

\* buffers ArcBridgeAllocateMemory may make: 1..MaxArcAllocations
MaxArcAllocations == 4

\* 0x8086
INTEL_VENDOR_ID == 32902

\* 0x56A0
ARC_A770_DEVICE_ID == 22176

\* 0x56A1
ARC_A750_DEVICE_ID == 22177

\* 0x56A5
ARC_A580_DEVICE_ID == 22181

\* 0x56A6
ARC_A380_DEVICE_ID == 22182

\* 0x15000000
METAL_COMPAT_SEQUOIA == 352321536

ARC_MEM_TYPE_SYSTEM == 1

ARC_MEM_TYPE_DEVICE == 2

ARC_MEM_TYPE_SHARED == 3

isArcA7xx(deviceId) == deviceId \in {ARC_A770_DEVICE_ID, ARC_A750_DEVICE_ID}

isArcA5xx(deviceId) == deviceId = ARC_A580_DEVICE_ID

isArcA3xx(deviceId) == deviceId = ARC_A380_DEVICE_ID

\* what the host does during one ArcBridgeInitialize call: whether the device
\* pointer is set, the ids read from configuration space, whether BAR0 has a
\* descriptor and can be mapped, whether BAR2 gets mapped, what
\* ArcBridgeLoadSymbols and ArcBridgeMetalInitialize return, and the osVersion
ArcHost(device, vendorID, deviceID, bar0, regMap, fbMap, symbols, osVersion, metal) ==
    [device |-> device, vendorID |-> vendorID, deviceID |-> deviceID, bar0 |-> bar0,
     regMap |-> regMap, fbMap |-> fbMap, symbols |-> symbols, osVersion |-> osVersion,
     metal |-> metal]

\* an Arc A770 on macOS 15 on which every step of the host works
GoodHost ==
    ArcHost(TRUE, INTEL_VENDOR_ID, ARC_A770_DEVICE_ID, TRUE, TRUE, TRUE, TRUE,
            METAL_COMPAT_SEQUOIA, TRUE)

\* the good host, and the hosts on which exactly one step differs
ArcHosts ==
    {GoodHost,
     [GoodHost EXCEPT !.device = FALSE],
     [GoodHost EXCEPT !.vendorID = 4318],
     [GoodHost EXCEPT !.deviceID = 4660],
     [GoodHost EXCEPT !.deviceID = ARC_A380_DEVICE_ID],
     [GoodHost EXCEPT !.bar0 = FALSE],
     [GoodHost EXCEPT !.regMap = FALSE],
     [GoodHost EXCEPT !.fbMap = FALSE],
     [GoodHost EXCEPT !.symbols = FALSE],
     [GoodHost EXCEPT !.osVersion = 0],
     [GoodHost EXCEPT !.metal = FALSE]}

\* results of the host calls inside ArcBridgeAllocateMemory: all succeed,
\* withOptions returns null, prepare fails, or createMappingInTask returns null
ArcAllocOutcomes == {"ok", "noDescriptor", "prepareFailed", "noMap"}

\* an ArcBridgeMemoryAllocation: memoryMap and memoryDescriptor are the number
\* of the buffer they belong to, 0 for nullptr
ArcAllocation(virtualAddress, memoryMap, memoryDescriptor) ==
    [virtualAddress |-> virtualAddress, memoryMap |-> memoryMap,
     memoryDescriptor |-> memoryDescriptor]

NullAllocation == ArcAllocation(0, 0, 0)

EmptyGPUInfo ==
    [vendorId |-> 0, deviceId |-> 0, commandBuffer |-> 0, pageTable |-> 0,
     stateBuffer |-> 0]

\* the body of ArcBridgeAllocateMemory on the table of buffers
arcAllocate(initialized, table, size, memType, outcome) ==
    IF ~initialized
    THEN [result |-> "kIOReturnNotReady", table |-> table, allocation |-> NullAllocation]
    ELSE IF size = 0 \/ memType \notin {ARC_MEM_TYPE_SYSTEM, ARC_MEM_TYPE_DEVICE,
                                         ARC_MEM_TYPE_SHARED}
    THEN [result |-> "kIOReturnBadArgument", table |-> table, allocation |-> NullAllocation]
    ELSE IF outcome = "noDescriptor"
    THEN [result |-> "kIOReturnNoMemory", table |-> table, allocation |-> NullAllocation]
    ELSE IF outcome = "prepareFailed"
    THEN [result |-> "prepare error", table |-> table, allocation |-> NullAllocation]
    ELSE IF outcome = "noMap"
    THEN [result |-> "kIOReturnNoMemory", table |-> table, allocation |-> NullAllocation]
    ELSE [result |-> "kIOReturnSuccess",
          table |-> Append(table, [size |-> size, memType |-> memType, mapReleases |-> 0,
                                   completes |-> 0, descriptorReleases |-> 0]),
          allocation |-> ArcAllocation(Len(table) + 1, Len(table) + 1, Len(table) + 1)]

\* the body of ArcBridgeFreeMemory on the table of buffers
arcFree(initialized, table, allocation) ==
    IF ~initialized THEN [result |-> "kIOReturnNotReady", table |-> table]
    ELSE IF allocation.memoryMap = 0 \/ allocation.memoryDescriptor = 0
    THEN [result |-> "kIOReturnBadArgument", table |-> table]
    ELSE LET t1 == [table EXCEPT ![allocation.memoryMap].mapReleases = @ + 1]
         IN [result |-> "kIOReturnSuccess",
             table |-> [t1 EXCEPT ![allocation.memoryDescriptor].completes = @ + 1,
                                  ![allocation.memoryDescriptor].descriptorReleases = @ + 1]]

\* allocateGPUMemory: command buffer, page table, state buffer, stopping at the
\* first ArcBridgeAllocateMemory that fails
allocateGPUMemory(initialized, table, info, outcomes) ==
    LET a1 == arcAllocate(initialized, table, 2 * 1024 * 1024, ARC_MEM_TYPE_DEVICE,
                          outcomes[1])
        i1 == [info EXCEPT !.commandBuffer = a1.allocation.virtualAddress]
        a2 == arcAllocate(initialized, a1.table, 128 * 1024, ARC_MEM_TYPE_SHARED,
                          outcomes[2])
        i2 == [i1 EXCEPT !.pageTable = a2.allocation.virtualAddress]
        a3 == arcAllocate(initialized, a2.table, 64 * 1024, ARC_MEM_TYPE_SHARED,
                          outcomes[3])
        i3 == [i2 EXCEPT !.stateBuffer = a3.allocation.virtualAddress]
    IN IF a1.result # "kIOReturnSuccess"
       THEN [result |-> a1.result, table |-> a1.table, info |-> info]
       ELSE IF a2.result # "kIOReturnSuccess"
       THEN [result |-> a2.result, table |-> a2.table, info |-> i1]
       ELSE IF a3.result # "kIOReturnSuccess"
       THEN [result |-> a3.result, table |-> a3.table, info |-> i2]
       ELSE [result |-> "kIOReturnSuccess", table |-> a3.table, info |-> i3]

\* releaseGPUMemory: for each internal buffer whose address is set, an
\* ArcBridgeFreeMemory of an allocation rebuilt with memoryDescriptor and
\* memoryMap null, then the address is cleared
releaseGPUMemory(initialized, table, info) ==
    LET f1 == IF info.commandBuffer = 0 THEN table
              ELSE arcFree(initialized, table, ArcAllocation(info.commandBuffer, 0, 0)).table
        f2 == IF info.pageTable = 0 THEN f1
              ELSE arcFree(initialized, f1, ArcAllocation(info.pageTable, 0, 0)).table
        f3 == IF info.stateBuffer = 0 THEN f2
              ELSE arcFree(initialized, f2, ArcAllocation(info.stateBuffer, 0, 0)).table
    IN [table |-> f3,
        info |-> [info EXCEPT !.commandBuffer = 0, !.pageTable = 0, !.stateBuffer = 0]]

ArcCall(op, arg, result) == [op |-> op, arg |-> arg, result |-> result]

\* ArcBridgeInitialize(device, osVersion) on host h; outcomes are the results
\* of the host calls of the three internal allocations
ArcBridgeInitialize(h, outcomes) ==
    /\ UNCHANGED <<coreVars, metalVars, cmdVars, concVars, libVars, xeVars, cudaVars>>
    /\ IF gArcBridgeInitialized
       THEN /\ alast' = ArcCall("ArcBridgeInitialize", h, "kIOReturnSuccess")
            /\ UNCHANGED <<gArcBridgeInitialized, gPCIDevice, gRegisterMap,
                           gFramebufferMap, gGPUInfo, arcAllocations>>
       ELSE IF ~h.device
       THEN /\ alast' = ArcCall("ArcBridgeInitialize", h, "kIOReturnBadArgument")
            /\ UNCHANGED <<gArcBridgeInitialized, gPCIDevice, gRegisterMap,
                           gFramebufferMap, gGPUInfo, arcAllocations>>
       ELSE /\ gPCIDevice < MaxRetains
            /\ gPCIDevice' = gPCIDevice + 1
            /\ IF h.vendorID # INTEL_VENDOR_ID
               THEN /\ alast' = ArcCall("ArcBridgeInitialize", h, "kIOReturnUnsupported")
                    /\ UNCHANGED <<gArcBridgeInitialized, gRegisterMap, gFramebufferMap,
                                   gGPUInfo, arcAllocations>>
               ELSE LET ids == [gGPUInfo EXCEPT !.vendorId = h.vendorID,
                                                !.deviceId = h.deviceID]
                    IN IF ~(isArcA7xx(h.deviceID) \/ isArcA5xx(h.deviceID)
                                \/ isArcA3xx(h.deviceID))
                       THEN /\ alast' = ArcCall("ArcBridgeInitialize", h,
                                                "kIOReturnUnsupported")
                            /\ gGPUInfo' = ids
                            /\ UNCHANGED <<gArcBridgeInitialized, gRegisterMap,
                                           gFramebufferMap, arcAllocations>>
                       ELSE IF ~h.bar0
                       THEN /\ alast' = ArcCall("ArcBridgeInitialize", h,
                                                "kIOReturnNoMemory")
                            /\ gGPUInfo' = ids
                            /\ UNCHANGED <<gArcBridgeInitialized, gRegisterMap,
                                           gFramebufferMap, arcAllocations>>
                       ELSE IF ~h.regMap
                       THEN /\ alast' = ArcCall("ArcBridgeInitialize", h,
                                                "kIOReturnNoMemory")
                            /\ gGPUInfo' = ids
                            /\ gRegisterMap' = FALSE
                            /\ UNCHANGED <<gArcBridgeInitialized, gFramebufferMap,
                                           arcAllocations>>
                       ELSE /\ gRegisterMap' = TRUE
                            /\ gFramebufferMap' = h.fbMap
                            /\ IF ~h.symbols
                               THEN /\ alast' = ArcCall("ArcBridgeInitialize", h,
                                                        "symbols error")
                                    /\ gGPUInfo' = ids
                                    /\ UNCHANGED <<gArcBridgeInitialized, arcAllocations>>
                               ELSE IF h.osVersion < METAL_COMPAT_SEQUOIA
                               THEN /\ alast' = ArcCall("ArcBridgeInitialize", h,
                                                        "kIOReturnUnsupported")
                                    /\ gGPUInfo' = ids
                                    /\ UNCHANGED <<gArcBridgeInitialized, arcAllocations>>
                               ELSE IF ~h.metal
                               THEN /\ alast' = ArcCall("ArcBridgeInitialize", h,
                                                        "metal error")
                                    /\ gGPUInfo' = ids
                                    /\ UNCHANGED <<gArcBridgeInitialized, arcAllocations>>
                               ELSE LET mem == allocateGPUMemory(gArcBridgeInitialized,
                                                                 arcAllocations, ids,
                                                                 outcomes)
                                    IN /\ Len(mem.table) <= MaxArcAllocations
                                       /\ alast' = ArcCall("ArcBridgeInitialize", h,
                                                           mem.result)
                                       /\ gGPUInfo' = mem.info
                                       /\ arcAllocations' = mem.table
                                       /\ gArcBridgeInitialized' =
                                              (mem.result = "kIOReturnSuccess")

\* ArcBridgeShutdown
ArcBridgeShutdown ==
    /\ UNCHANGED <<coreVars, metalVars, cmdVars, concVars, libVars, xeVars, cudaVars>>
    /\ alast' = ArcCall("ArcBridgeShutdown", <<>>, "kIOReturnSuccess")
    /\ IF ~gArcBridgeInitialized
       THEN UNCHANGED <<gArcBridgeInitialized, gPCIDevice, gRegisterMap, gFramebufferMap,
                        gGPUInfo, arcAllocations>>
       ELSE LET rel == releaseGPUMemory(gArcBridgeInitialized, arcAllocations, gGPUInfo)
            IN /\ arcAllocations' = rel.table
               /\ gRegisterMap' = FALSE
               /\ gFramebufferMap' = FALSE
               /\ gPCIDevice' = IF gPCIDevice > 0 THEN gPCIDevice - 1 ELSE 0
               /\ gGPUInfo' = EmptyGPUInfo
               /\ gArcBridgeInitialized' = FALSE

\* ArcBridgeAllocateMemory(size, memType, allocation) called by a client
ArcBridgeAllocateMemory(size, memType, outcome) ==
    /\ UNCHANGED <<coreVars, metalVars, cmdVars, concVars, libVars, xeVars, cudaVars>>
    /\ UNCHANGED <<gArcBridgeInitialized, gPCIDevice, gRegisterMap, gFramebufferMap,
                   gGPUInfo>>
    /\ LET a == arcAllocate(gArcBridgeInitialized, arcAllocations, size, memType, outcome)
       IN /\ Len(a.table) <= MaxArcAllocations
          /\ arcAllocations' = a.table
          /\ alast' = ArcCall("ArcBridgeAllocateMemory", <<size, memType>>, a.result)

\* ArcBridgeFreeMemory(allocation) called by a client with an allocation it
\* got and has not freed, or with one whose pointers are null
ArcBridgeFreeMemory(allocation) ==
    /\ UNCHANGED <<coreVars, metalVars, cmdVars, concVars, libVars, xeVars, cudaVars>>
    /\ UNCHANGED <<gArcBridgeInitialized, gPCIDevice, gRegisterMap, gFramebufferMap,
                   gGPUInfo>>
    /\ allocation.memoryMap # 0
          => /\ allocation.memoryMap \in 1..Len(arcAllocations)
             /\ arcAllocations[allocation.memoryMap].mapReleases = 0
    /\ LET f == arcFree(gArcBridgeInitialized, arcAllocations, allocation)
       IN /\ arcAllocations' = f.table
          /\ alast' = ArcCall("ArcBridgeFreeMemory", allocation, f.result)

ArcInit ==
    /\ gArcBridgeInitialized = FALSE
    /\ gPCIDevice = 0
    /\ gRegisterMap = FALSE
    /\ gFramebufferMap = FALSE
    /\ gGPUInfo = EmptyGPUInfo
    /\ arcAllocations = <<>>
    /\ alast = ArcCall("none", <<>>, "none")

NextArc ==
    \/ \E h \in ArcHosts, o1, o2, o3 \in ArcAllocOutcomes :
          ArcBridgeInitialize(h, <<o1, o2, o3>>)
    \/ ArcBridgeShutdown
    \/ \E size \in {0, 4096}, memType \in {ARC_MEM_TYPE_SYSTEM, ARC_MEM_TYPE_DEVICE,
                                           ARC_MEM_TYPE_SHARED, 9},
          outcome \in ArcAllocOutcomes :
          ArcBridgeAllocateMemory(size, memType, outcome)
    \/ \E id \in 0..MaxArcAllocations : ArcBridgeFreeMemory(ArcAllocation(id, id, id))

-----------------------------------------------------------------------------
(* NVMetalShaderLibrary: the per-library store of compiled functions *)

\* NVMetalShaderTranslator::translateMSLToNV: the header, the function name, a
\* terminator and the 1024-byte body; the result depends on the name alone
translateMSLToNV(mslSource, functionName, isVertex) ==
    <<"NVVM_COMPILED_SHADER", functionName, 0, "body">>

\* NVMetalShaderLibrary::newFunction(functionName, isVertex); a function object
\* is identified by the order in which it was made (id), nullptr has id 0
newFunction(functionName, isVertex) ==
    /\ UNCHANGED <<coreVars, metalVars, cmdVars, concVars, arcVars, xeVars, cudaVars>>
    /\ IF functionName \in DOMAIN functions
       THEN /\ flast' = [functionName |-> functionName, isVertex |-> isVertex,
                         result |-> functions[functionName], translated |-> FALSE]
            /\ UNCHANGED <<functions, translateCalls>>
       ELSE LET compiledCode == translateMSLToNV("source", functionName, isVertex)
                function == [id |-> translateCalls + 1, name |-> functionName,
                             compiledCode |-> compiledCode \o <<"MAXWELL_OPTIMIZED">>,
                             isVertex |-> isVertex]
            IN /\ translateCalls' = translateCalls + 1
               /\ IF compiledCode = <<>>
                  THEN /\ flast' = [functionName |-> functionName, isVertex |-> isVertex,
                                    result |-> [id |-> 0, name |-> "", compiledCode |-> <<>>,
                                                isVertex |-> FALSE],
                                    translated |-> TRUE]
                       /\ UNCHANGED functions
                  ELSE /\ functions' = [k \in DOMAIN functions \cup {functionName} |->
                                           IF k = functionName THEN function
                                                               ELSE functions[k]]
                       /\ flast' = [functionName |-> functionName, isVertex |-> isVertex,
                                    result |-> function, translated |-> TRUE]

NextLib ==
    \E functionName \in {"vertexMain", "fragmentMain", "shade", "blit"},
       isVertex \in BOOLEAN : newFunction(functionName, isVertex)

-----------------------------------------------------------------------------
(* ArcBridge: the user-space Intel Arc bridge *)

\* enum class SupportedGPUs: 0x56A0, 0x56A1, 0x56A5
ARC_A770 == 22176

ARC_A750 == 22177

ARC_A380 == 22181

\* what the host does during one initialize call: the device is found,
\* IOServiceOpen and dlopen succeed, dlsym resolves the five required symbols
\* and ArcInitializeXMX, ArcInitialize and ArcInitializeXMX return 0, and the
\* registry entry has a readable device-id; the first host succeeds in all
XeHosts ==
    LET good == [found |-> TRUE, openOk |-> TRUE, dlopenOk |-> TRUE, syms |-> TRUE,
                 xmxSym |-> TRUE, arcInitOk |-> TRUE, deviceIdProp |-> TRUE,
                 xmxOk |-> TRUE]
    IN {good, [good EXCEPT !.found = FALSE], [good EXCEPT !.openOk = FALSE],
        [good EXCEPT !.dlopenOk = FALSE], [good EXCEPT !.syms = FALSE],
        [good EXCEPT !.arcInitOk = FALSE], [good EXCEPT !.deviceIdProp = FALSE],
        [good EXCEPT !.xmxSym = FALSE], [good EXCEPT !.xmxOk = FALSE]}

\* ArcBridge::initializeHardware(service) with mapRegisters, loadDriverFunctions
\* and initializeEngine; deviceInfo.deviceID is what the registry entry of the
\* matched device says, and stays as it was when the property is not readable
ArcBridge_initializeHardware(i, deviceID, h) ==
    IF ~h.openOk THEN [ok |-> FALSE, impl |-> i]
    ELSE LET opened == [i EXCEPT !.deviceConnect = TRUE]
         IN IF ~h.dlopenOk THEN [ok |-> FALSE, impl |-> [opened EXCEPT !.driverHandle = FALSE]]
            ELSE LET loaded == [opened EXCEPT !.driverHandle = TRUE,
                                              !.arcAllocateMemory = h.syms,
                                              !.arcInitializeXMX = h.xmxSym]
                     id == IF h.deviceIdProp THEN deviceID ELSE i.deviceID
                 IN IF ~h.syms \/ ~h.arcInitOk THEN [ok |-> FALSE, impl |-> loaded]
                    ELSE [ok |-> TRUE,
                          impl |-> [loaded EXCEPT
                                       !.deviceID = id,
                                       !.numXMXEngines =
                                           IF id = ARC_A770 THEN 32
                                           ELSE IF id = ARC_A750 THEN 28
                                           ELSE IF id = ARC_A380 THEN 8 ELSE 0]]

\* ArcBridge::initializeXMX once it has m_mutex
ArcBridge_initializeXMX(initialized, i, h) ==
    IF ~initialized THEN [ok |-> FALSE, impl |-> i]
    ELSE IF i.numXMXEngines = 0 THEN [ok |-> FALSE, impl |-> i]
    ELSE IF ~i.arcInitializeXMX THEN [ok |-> FALSE, impl |-> i]
    ELSE IF ~h.xmxOk THEN [ok |-> FALSE, impl |-> i]
    ELSE [ok |-> TRUE, impl |-> [i EXCEPT !.xmxSupported = TRUE]]

\* ArcBridge::initialize(deviceID, forceInit). It holds m_mutex when it calls
\* initializeXMX, which locks m_mutex again: relock is what that second lock of
\* a non-recursive mutex does
ArcBridge_initialize(deviceID, forceInit, h, relock) ==
    /\ UNCHANGED <<coreVars, metalVars, cmdVars, concVars, arcVars, libVars, cudaVars>>
    /\ ~arcHung
    /\ LET call(result) == [op |-> "initialize", deviceID |-> deviceID,
                            forceInit |-> forceInit, host |-> h, ptr |-> NULL,
                            result |-> result]
           found == [arcImpl EXCEPT !.deviceService = TRUE]
           hw == ArcBridge_initializeHardware(found, deviceID, h)
           metal == [hw.impl EXCEPT !.metalDevice = TRUE]
           xmx == ArcBridge_initializeXMX(arcInitialized, metal, h)
       IN IF arcInitialized
          THEN /\ xlast' = call("SUCCESS")
               /\ UNCHANGED <<arcInitialized, arcImpl, arcHung>>
          ELSE IF deviceID \notin {ARC_A770, ARC_A750, ARC_A380} /\ ~forceInit
          THEN /\ xlast' = call("DEVICE_NOT_FOUND")
               /\ UNCHANGED <<arcInitialized, arcImpl, arcHung>>
          ELSE IF ~h.found
          THEN /\ xlast' = call("DEVICE_NOT_FOUND")
               /\ UNCHANGED <<arcInitialized, arcImpl, arcHung>>
          ELSE IF ~hw.ok
          THEN /\ xlast' = call("DRIVER_NOT_LOADED")
               /\ arcImpl' = hw.impl
               /\ UNCHANGED <<arcInitialized, arcHung>>
          ELSE IF metal.numXMXEngines > 0 /\ relock = "deadlock"
          THEN /\ xlast' = call("never returns")
               /\ arcImpl' = metal
               /\ arcHung' = TRUE
               /\ UNCHANGED arcInitialized
          ELSE IF metal.numXMXEngines > 0 /\ ~xmx.ok
          THEN /\ xlast' = call("XMX_INITIALIZATION_FAILED")
               /\ arcImpl' = xmx.impl
               /\ UNCHANGED <<arcInitialized, arcHung>>
          ELSE /\ xlast' = call("SUCCESS")
               /\ arcImpl' = IF metal.numXMXEngines > 0 THEN xmx.impl ELSE metal
               /\ arcInitialized' = TRUE
               /\ UNCHANGED arcHung

\* ArcBridge::shutdown
ArcBridge_shutdown ==
    /\ UNCHANGED <<coreVars, metalVars, cmdVars, concVars, arcVars, libVars, cudaVars>>
    /\ ~arcHung
    /\ xlast' = [op |-> "shutdown", deviceID |-> 0, forceInit |-> FALSE, host |-> <<>>,
                 ptr |-> NULL, result |-> "void"]
    /\ UNCHANGED arcHung
    /\ IF ~arcInitialized
       THEN UNCHANGED <<arcInitialized, arcImpl>>
       ELSE /\ arcInitialized' = FALSE
            /\ arcImpl' = [arcImpl EXCEPT !.allocations = <<>>, !.metalDevice = FALSE,
                                          !.deviceConnect = FALSE, !.deviceService = FALSE,
                                          !.driverHandle = FALSE]

\* ArcBridge::allocateMemory(size, flags); ptr is what arcAllocateMemory returns
ArcBridge_allocateMemory(size, ptr) ==
    /\ UNCHANGED <<coreVars, metalVars, cmdVars, concVars, arcVars, libVars, cudaVars>>
    /\ ~arcHung
    /\ ptr # NULL => \A k \in 1..Len(arcImpl.allocations) : arcImpl.allocations[k].ptr # ptr
    /\ UNCHANGED <<arcInitialized, arcHung>>
    /\ LET call(p, result) == [op |-> "allocateMemory", deviceID |-> 0, forceInit |-> FALSE,
                               host |-> <<>>, ptr |-> p, result |-> result]
       IN IF ~arcInitialized
          THEN /\ xlast' = call(NULL, "not initialized") /\ UNCHANGED arcImpl
          ELSE IF ~arcImpl.arcAllocateMemory
          THEN /\ xlast' = call(NULL, "function not available") /\ UNCHANGED arcImpl
          ELSE IF ptr = NULL
          THEN /\ xlast' = call(NULL, "failed") /\ UNCHANGED arcImpl
          ELSE /\ xlast' = call(ptr, "allocated")
               /\ arcImpl' = [arcImpl EXCEPT
                                 !.allocations = Append(@, [ptr |-> ptr, size |-> size])]

NextXe ==
    \/ \E deviceID \in {ARC_A770, ARC_A750, ARC_A380, 4660}, forceInit \in BOOLEAN,
          h \in XeHosts, relock \in RelockOutcomes :
          ArcBridge_initialize(deviceID, forceInit, h, relock)
    \/ ArcBridge_shutdown
    \/ \E size \in {4096}, ptr \in {NULL} \cup Ptrs : ArcBridge_allocateMemory(size, ptr)

-----------------------------------------------------------------------------
(* The CUDA bridge: kernel, stream and event slots under gCUDALock *)

\* the sizes of gCUDAKernels, gCUDAStreams and gCUDAEvents (1024, 64 and 256 in
\* the source)
MAX_CUDA_KERNELS == 2

MAX_CUDA_STREAMS == 3

MAX_CUDA_EVENTS == 2

\* findFreeKernelSlot, findFreeStreamSlot (first = 1), findFreeEventSlot: the
\* lowest inactive index, found FALSE for UINT32_MAX
findFreeSlot(table, first) ==
    LET free == {i \in DOMAIN table : i >= first /\ ~table[i].active}
    IN IF free = {} THEN [found |-> FALSE, index |-> 0]
       ELSE [found |-> TRUE, index |-> CHOOSE i \in free : \A j \in free : i <= j]

CudaCall(t, op, handle, block, stream, result) ==
    [thread |-> t, op |-> op, handle |-> handle, block |-> block, stream |-> stream,
     result |-> result]

\* NVBridgeCUDAInitialize(gpuInfo)
NVBridgeCUDAInitialize(t, gpuInfo) ==
    /\ UNCHANGED <<coreVars, metalVars, cmdVars, concVars, arcVars, libVars, xeVars>>
    /\ cudaThreads[t].pc = "idle"
    /\ UNCHANGED <<gCUDALock, cudaThreads>>
    /\ IF gCUDAInitialized
       THEN /\ culast' = CudaCall(t, "NVBridgeCUDAInitialize", 0, <<>>, 0, "kIOReturnSuccess")
            /\ UNCHANGED <<gCUDAInitialized, gCUDAKernels, gCUDAStreams, gCUDAEvents>>
       ELSE IF gpuInfo = NULL
       THEN /\ culast' = CudaCall(t, "NVBridgeCUDAInitialize", 0, <<>>, 0,
                                  "kIOReturnBadArgument")
            /\ UNCHANGED <<gCUDAInitialized, gCUDAKernels, gCUDAStreams, gCUDAEvents>>
       ELSE /\ gCUDAKernels' = [i \in 0..MAX_CUDA_KERNELS - 1 |->
                                   [active |-> FALSE, block |-> <<>>]]
            /\ gCUDAStreams' = [i \in 0..MAX_CUDA_STREAMS - 1 |-> [active |-> i = 0]]
            /\ gCUDAEvents' = [i \in 0..MAX_CUDA_EVENTS - 1 |->
                                  [active |-> FALSE, recorded |-> FALSE]]
            /\ gCUDAInitialized' = TRUE
            /\ culast' = CudaCall(t, "NVBridgeCUDAInitialize", 0, <<>>, 0, "kIOReturnSuccess")

\* NVBridgeCUDAShutdown: no kernel has code, so the loop under the lock frees
\* nothing and leaves every slot as it is
NVBridgeCUDAShutdown(t) ==
    /\ UNCHANGED <<coreVars, metalVars, cmdVars, concVars, arcVars, libVars, xeVars>>
    /\ cudaThreads[t].pc = "idle"
    /\ ~gCUDAInitialized \/ gCUDALock = "free"
    /\ UNCHANGED <<gCUDALock, cudaThreads, gCUDAKernels, gCUDAStreams, gCUDAEvents>>
    /\ gCUDAInitialized' = FALSE
    /\ culast' = CudaCall(t, "NVBridgeCUDAShutdown", 0, <<>>, 0, "kIOReturnSuccess")

\* NVBridgeCUDAStreamCreate, NVBridgeCUDAEventCreate and
\* NVBridgeCUDAModuleGetFunction (kind "stream", "event", "kernel") in thread t up
\* to the return of findFree...Slot, which locks and unlocks gCUDALock
NVBridgeCUDACreateFind(t, kind) ==
    /\ UNCHANGED <<coreVars, metalVars, cmdVars, concVars, arcVars, libVars, xeVars>>
    /\ cudaThreads[t].pc = "idle"
    /\ UNCHANGED <<gCUDAInitialized, gCUDAKernels, gCUDAStreams, gCUDAEvents, gCUDALock>>
    /\ IF ~gCUDAInitialized
       THEN /\ culast' = CudaCall(t, kind, 0, <<>>, 0, "kIOReturnNotReady")
            /\ UNCHANGED cudaThreads
       ELSE /\ gCUDALock = "free"
            /\ LET slot == IF kind = "stream" THEN findFreeSlot(gCUDAStreams, 1)
                           ELSE IF kind = "event" THEN findFreeSlot(gCUDAEvents, 0)
                           ELSE findFreeSlot(gCUDAKernels, 0)
               IN IF ~slot.found
                  THEN /\ culast' = CudaCall(t, kind, 0, <<>>, 0, "kIOReturnNoResources")
                       /\ UNCHANGED cudaThreads
                  ELSE /\ cudaThreads' = [cudaThreads EXCEPT
                                             ![t] = [pc |-> kind, index |-> slot.index]]
                       /\ UNCHANGED culast

\* the same calls from the second lock section, which marks the slot active,
\* to the return of the index as the handle
NVBridgeCUDACreateStore(t) ==
    /\ UNCHANGED <<coreVars, metalVars, cmdVars, concVars, arcVars, libVars, xeVars>>
    /\ cudaThreads[t].pc # "idle"
    /\ gCUDALock = "free"
    /\ UNCHANGED <<gCUDAInitialized, gCUDALock>>
    /\ LET kind == cudaThreads[t].pc
           index == cudaThreads[t].index
       IN /\ gCUDAStreams' = IF kind = "stream"
                             THEN [gCUDAStreams EXCEPT ![index].active = TRUE]
                             ELSE gCUDAStreams
          /\ gCUDAEvents' = IF kind = "event"
                            THEN [gCUDAEvents EXCEPT ![index] =
                                     [active |-> TRUE, recorded |-> FALSE]]
                            ELSE gCUDAEvents
          /\ gCUDAKernels' = IF kind = "kernel"
                             THEN [gCUDAKernels EXCEPT ![index].active = TRUE]
                             ELSE gCUDAKernels
          /\ cudaThreads' = [cudaThreads EXCEPT ![t] = [pc |-> "idle", index |-> 0]]
          /\ culast' = CudaCall(t, kind, index, <<>>, 0, "kIOReturnSuccess")

\* NVBridgeCUDAStreamDestroy(stream) and NVBridgeCUDAEventDestroy(event): the
\* check of the active flag returns from inside the lock section
NVBridgeCUDADestroy(t, kind, handle) ==
    /\ UNCHANGED <<coreVars, metalVars, cmdVars, concVars, arcVars, libVars, xeVars>>
    /\ cudaThreads[t].pc = "idle"
    /\ UNCHANGED <<gCUDAInitialized, gCUDAKernels, cudaThreads>>
    /\ LET op == IF kind = "stream" THEN "NVBridgeCUDAStreamDestroy"
                                    ELSE "NVBridgeCUDAEventDestroy"
           table == IF kind = "stream" THEN gCUDAStreams ELSE gCUDAEvents
       IN IF ~gCUDAInitialized
          THEN /\ culast' = CudaCall(t, op, handle, <<>>, 0, "kIOReturnNotReady")
               /\ UNCHANGED <<gCUDAStreams, gCUDAEvents, gCUDALock>>
          ELSE IF handle = NULL \/ handle \notin DOMAIN table
          THEN /\ culast' = CudaCall(t, op, handle, <<>>, 0, "kIOReturnBadArgument")
               /\ UNCHANGED <<gCUDAStreams, gCUDAEvents, gCUDALock>>
          ELSE /\ gCUDALock = "free"
               /\ IF ~table[handle].active
                  THEN /\ gCUDALock' = "locked"
                       /\ culast' = CudaCall(t, op, handle, <<>>, 0, "kIOReturnBadArgument")
                       /\ UNCHANGED <<gCUDAStreams, gCUDAEvents>>
                  ELSE /\ gCUDAStreams' = IF kind = "stream"
                                          THEN [gCUDAStreams EXCEPT ![handle].active = FALSE]
                                          ELSE gCUDAStreams
                       /\ gCUDAEvents' = IF kind = "event"
                                         THEN [gCUDAEvents EXCEPT ![handle].active = FALSE]
                                         ELSE gCUDAEvents
                       /\ culast' = CudaCall(t, op, handle, <<>>, 0, "kIOReturnSuccess")
                       /\ UNCHANGED gCUDALock

\* NVBridgeCUDAEventRecord(event, stream); a null stream is the default stream
NVBridgeCUDAEventRecord(t, event, stream) ==
    /\ UNCHANGED <<coreVars, metalVars, cmdVars, concVars, arcVars, libVars, xeVars>>
    /\ cudaThreads[t].pc = "idle"
    /\ UNCHANGED <<gCUDAInitialized, gCUDAKernels, gCUDAStreams, cudaThreads>>
    /\ LET call(result) == CudaCall(t, "NVBridgeCUDAEventRecord", event, <<>>, stream, result)
       IN IF ~gCUDAInitialized
          THEN /\ culast' = call("kIOReturnNotReady")
               /\ UNCHANGED <<gCUDAEvents, gCUDALock>>
          ELSE IF event = NULL \/ event \notin DOMAIN gCUDAEvents
                  \/ stream \notin DOMAIN gCUDAStreams
          THEN /\ culast' = call("kIOReturnBadArgument")
               /\ UNCHANGED <<gCUDAEvents, gCUDALock>>
          ELSE /\ gCUDALock = "free"
               /\ IF ~gCUDAEvents[event].active \/ ~gCUDAStreams[stream].active
                  THEN /\ gCUDALock' = "locked"
                       /\ culast' = call("kIOReturnBadArgument")
                       /\ UNCHANGED gCUDAEvents
                  ELSE /\ gCUDAEvents' = [gCUDAEvents EXCEPT ![event].recorded = TRUE]
                       /\ culast' = call("kIOReturnSuccess")
                       /\ UNCHANGED gCUDALock

\* NVBridgeCUDALaunchKernel(function, 1, 1, 1, block[1], block[2], block[3], 0,
\* stream, nullptr); executeCUDAKernel returns kIOReturnSuccess
NVBridgeCUDALaunchKernel(t, function, block, stream) ==
    /\ UNCHANGED <<coreVars, metalVars, cmdVars, concVars, arcVars, libVars, xeVars>>
    /\ cudaThreads[t].pc = "idle"
    /\ UNCHANGED <<gCUDAInitialized, gCUDAStreams, gCUDAEvents, cudaThreads>>
    /\ LET call(result) == CudaCall(t, "NVBridgeCUDALaunchKernel", function, block, stream,
                                    result)
           threadsPerBlock == MulU32(MulU32(U32(block[1]), U32(block[2])), U32(block[3]))
       IN IF ~gCUDAInitialized
          THEN /\ culast' = call("kIOReturnNotReady")
               /\ UNCHANGED <<gCUDAKernels, gCUDALock>>
          ELSE IF \/ function = NULL
                  \/ \E k \in 1..3 : block[k] = 0
                  \/ ~(threadsPerBlock[2] = 0 /\ threadsPerBlock[1] <= 1024)
                  \/ function \notin DOMAIN gCUDAKernels
          THEN /\ culast' = call("kIOReturnBadArgument")
               /\ UNCHANGED <<gCUDAKernels, gCUDALock>>
          ELSE /\ gCUDALock = "free"
               /\ IF ~gCUDAKernels[function].active
                  THEN /\ gCUDALock' = "locked"
                       /\ culast' = call("kIOReturnBadArgument")
                       /\ UNCHANGED gCUDAKernels
                  ELSE /\ gCUDAKernels' = [gCUDAKernels EXCEPT ![function].block = block]
                       /\ UNCHANGED gCUDALock
                       /\ culast' = call(IF stream \in DOMAIN gCUDAStreams
                                            /\ gCUDAStreams[stream].active
                                         THEN "kIOReturnSuccess"
                                         ELSE "kIOReturnBadArgument")

NextCuda ==
    \E t \in Threads :
       \/ \E gpuInfo \in {NULL, 1} : NVBridgeCUDAInitialize(t, gpuInfo)
       \/ NVBridgeCUDAShutdown(t)
       \/ \E kind \in {"stream", "event", "kernel"} : NVBridgeCUDACreateFind(t, kind)
       \/ NVBridgeCUDACreateStore(t)
       \/ \E handle \in 0..MAX_CUDA_STREAMS - 1 : NVBridgeCUDADestroy(t, "stream", handle)
       \/ \E handle \in 0..MAX_CUDA_EVENTS - 1 : NVBridgeCUDADestroy(t, "event", handle)
       \/ \E event \in 0..MAX_CUDA_EVENTS - 1, stream \in 0..MAX_CUDA_STREAMS - 1 :
             NVBridgeCUDAEventRecord(t, event, stream)
       \/ \E function \in 0..MAX_CUDA_KERNELS - 1,
             block \in {<<1, 1, 1>>, <<32, 32, 2>>, <<65536, 65536, 1>>} :
             NVBridgeCUDALaunchKernel(t, function, block, 0)

-----------------------------------------------------------------------------
(* Specifications *)

Init ==
    /\ CoreInit /\ MetalInit /\ CmdInit /\ ConcInit /\ ArcInit
    /\ functions = [k \in {} |-> NULL]
    /\ translateCalls = 0
    /\ flast = [functionName |-> "", isVertex |-> FALSE, translated |-> FALSE,
                result |-> [id |-> 0, name |-> "", compiledCode |-> <<>>, isVertex |-> FALSE]]
    /\ arcInitialized = FALSE
    /\ arcImpl = [deviceService |-> FALSE, deviceConnect |-> FALSE, driverHandle |-> FALSE,
                  arcAllocateMemory |-> FALSE, arcInitializeXMX |-> FALSE, deviceID |-> 0,
                  numXMXEngines |-> 0, xmxSupported |-> FALSE, metalDevice |-> FALSE,
                  allocations |-> <<>>]
    /\ arcHung = FALSE
    /\ xlast = [op |-> "none", deviceID |-> 0, forceInit |-> FALSE, host |-> <<>>,
                ptr |-> NULL, result |-> "none"]
    /\ gCUDAInitialized = FALSE
    /\ gCUDAKernels = [i \in 0..MAX_CUDA_KERNELS - 1 |-> [active |-> FALSE, block |-> <<>>]]
    /\ gCUDAStreams = [i \in 0..MAX_CUDA_STREAMS - 1 |-> [active |-> FALSE]]
    /\ gCUDAEvents = [i \in 0..MAX_CUDA_EVENTS - 1 |-> [active |-> FALSE, recorded |-> FALSE]]
    /\ gCUDALock = "free"
    /\ cudaThreads = [t \in Threads |-> [pc |-> "idle", index |-> 0]]
    /\ culast = CudaCall("none", "none", 0, <<>>, 0, "none")

SpecCore == Init /\ [][NextCore]_vars

SpecCoreCmd == Init /\ [][NextCoreCmd]_vars

SpecTexture == Init /\ [][NextTexture]_vars

SpecDriver == Init /\ [][NextDriver]_vars

SpecLock == Init /\ [][NextLock]_vars

SpecArc == Init /\ [][NextArc]_vars

SpecShader == Init /\ [][NextShader]_vars

SpecPipe == Init /\ [][NextPipe]_vars

SpecCmd == Init /\ [][NextCmd]_vars

SpecMetal == Init /\ [][NextMetal]_vars

SpecConc == Init /\ [][NextConc]_vars

SpecLifecycle == Init /\ [][NextLifecycle]_vars

SpecLib == Init /\ [][NextLib]_vars

SpecXe == Init /\ [][NextXe]_vars

SpecCuda == Init /\ [][NextCuda]_vars

-----------------------------------------------------------------------------
(* Properties of NVBridgeCore (SpecCore) *)

\* size rounded up to the next multiple of 4096, the allocation tracker's stated alignment
AlignUp(size) == ((size + 4096 - 1) \div 4096) * 4096

\* sum of the live allocations' recorded sizes, each rounded up to the alignment
LiveAlignedSum ==
    SumSizes([p \in DOMAIN allocations |-> AlignUp(allocations[p])])

\* C1 (as stated): on an initialized bridge, after any sequence of allocateMemory
\* and freeMemory calls, the usedMemory reported by getMemoryInfo is at most
\* totalMemory and equals the sum of the aligned sizes of the live allocations.
\* The code never updates usedMemory, so this fails after the first allocation.
C1_BudgetInvariant ==
    m_initialized =>
        /\ (getMemoryInfo.usedMemory + 1048575) \div 1048576 <= getMemoryInfo.totalMemoryMiB
        /\ getMemoryInfo.usedMemory = LiveAlignedSum

\* C2: when freeMemory(p) follows a freeMemory(p) that freed p, the first call
\* made one vendor free call and removed p's record, and the second call is
\* rejected as unallocated, makes no vendor call and leaves the allocation
\* table and the reported memory usage unchanged.
C2_DoubleFreeRejected ==
    [][(/\ last.op = "freeMemory" /\ last.log = "freed"
        /\ last'.op = "freeMemory" /\ last'.ptr = last.ptr)
       => /\ last.vendor = <<<<"nvFreeMemory", last.ptr>>>>
          /\ last.ptr \notin DOMAIN allocations
          /\ last'.log = "unallocated"
          /\ last'.vendor = <<>>
          /\ allocations' = allocations
          /\ getMemoryInfo' = getMemoryInfo]_vars

\* C2 witness: a second freeMemory(p) right after the one that freed p
C2_Witness ==
    /\ last.op = "freeMemory"
    /\ last.prevLog = "freed"
    /\ last.log = "unallocated"
    /\ last.ptr \notin DOMAIN allocations

\* C8 (as stated): the size recorded for an allocation is the requested size
\* rounded up to the next multiple of 4096 (4097 -> 8192, 4096 -> 4096).
\* The code records the requested size as it is.
C8_AlignedSizeRecorded ==
    (last.op = "allocateMemory" /\ last.result = "ptr")
        => allocations[last.ptr] = AlignUp(last.size)

\* C9: a copy in either direction succeeds exactly when its device-side pointer
\* is a live allocation whose recorded size is at least the copy size; it
\* reports an invalid allocation for a pointer that is not live and a too-small
\* buffer for a size above the recorded one; it never changes the allocation
\* table; and a copy right after the pointer was freed fails.
C9_CopyChecked ==
    [][(last'.op \in {"copyHostToDevice", "copyDeviceToHost"})
       => /\ allocations' = allocations
          /\ (last'.result = "true") <=>
                 (/\ last'.ptr \in DOMAIN allocations
                  /\ last'.size <= allocations[last'.ptr])
          /\ last'.result \in {"true", "false"}
          /\ (m_initialized /\ last'.ptr \notin DOMAIN allocations)
                 => last'.log = "not a valid GPU allocation"
          /\ (last'.ptr \in DOMAIN allocations /\ last'.size > allocations[last'.ptr])
                 => last'.log = "buffer too small"
          /\ (last.op = "freeMemory" /\ last.log = "freed" /\ last'.ptr = last.ptr)
                 => last'.result = "false"]_vars

\* C9 witness: a copy that was refused because it is larger than the allocation
C9_Witness ==
    /\ last.op \in {"copyHostToDevice", "copyDeviceToHost"}
    /\ last.ptr \in DOMAIN allocations
    /\ last.size > allocations[last.ptr]
    /\ last.result = "false"

\* C10: when nvAllocateMemory returns null, allocateMemory returns null and the
\* allocation table and the reported memory usage are what they were before.
C10_FailedAllocationKeepsState ==
    [][(last'.op = "allocateMemory" /\ last'.vendor # <<>> /\ last'.ptr = NULL)
       => /\ last'.result = "null"
          /\ allocations' = allocations
          /\ getMemoryInfo' = getMemoryInfo]_vars

\* C10 witness: a failed allocation on a bridge that holds a live allocation
C10_Witness ==
    /\ last.op = "allocateMemory"
    /\ last.vendor # <<>>
    /\ last.result = "null"
    /\ DOMAIN allocations # {}

\* C11: shutdown on an initialized bridge calls the vendor free function exactly
\* once for each live allocation and for nothing else, leaves the allocation
\* table empty and the bridge uninitialized; shutdown on an uninitialized
\* bridge makes no vendor call and changes nothing.
C11_ShutdownFreesAll ==
    [][(last'.op = "shutdown")
       => /\ m_initialized =>
                /\ Len(last'.vendor) = Cardinality(DOMAIN allocations)
                /\ \A p \in DOMAIN allocations :
                      Cardinality({i \in 1..Len(last'.vendor) :
                                      last'.vendor[i] = <<"nvFreeMemory", p>>}) = 1
                /\ allocations' = <<>>
                /\ vendorLive' = {}
                /\ ~m_initialized'
          /\ ~m_initialized =>
                /\ last'.vendor = <<>>
                /\ UNCHANGED <<m_initialized, impl, memoryInfo, allocations, vendorLive>>]_vars

\* C11 witness: a shutdown that freed every address the model has
C11_Witness ==
    /\ last.op = "shutdown"
    /\ last.log = "completed"
    /\ Len(last.vendor) = MaxPtr
    /\ allocations = <<>>
    /\ ~m_initialized

\* C15: every command buffer sees at most one successful nvSubmitCommand: a
\* submitCommandBuffer call on a buffer whose submitted flag is set returns false
\* without a vendor call, a vendor submit that fails leaves the buffer
\* unsubmitted, a completed buffer has had exactly one successful vendor submit,
\* and the submitted and completed flags of a buffer are never taken back.
C15_OneVendorSubmit ==
    [][/\ Len(commandBuffers') >= Len(commandBuffers)
       /\ \A i \in 1..Len(commandBuffers') :
             /\ commandBuffers'[i].okSubmits <= 1
             /\ commandBuffers'[i].submitted <=> (commandBuffers'[i].okSubmits = 1)
             /\ commandBuffers'[i].completed => commandBuffers'[i].okSubmits = 1
       /\ \A i \in 1..Len(commandBuffers) :
             /\ commandBuffers[i].submitted => commandBuffers'[i].submitted
             /\ commandBuffers[i].completed => commandBuffers'[i].completed
       /\ (last'.op = "submitCommandBuffer" /\ last'.ptr \in 1..Len(commandBuffers))
             => /\ commandBuffers[last'.ptr].submitted
                     => /\ last'.vendor = <<>>
                        /\ last'.result = "false"
                        /\ commandBuffers' = commandBuffers
                /\ (last'.vendor # <<>> /\ last'.result = "false")
                     => /\ ~commandBuffers'[last'.ptr].submitted
                        /\ commandBuffers' = commandBuffers
                /\ last'.result = "true"
                     => /\ last'.vendor = <<<<"nvSubmitCommand", last'.ptr>>>>
                        /\ ~commandBuffers[last'.ptr].submitted
                        /\ commandBuffers'[last'.ptr].submitted]_vars

\* a buffer was submitted and waited for, and a second submit was turned away
C15_Witness ==
    /\ last.op = "submitCommandBuffer"
    /\ last.log = "already submitted"
    /\ last.ptr \in 1..Len(commandBuffers)
    /\ commandBuffers[last.ptr].completed
    /\ commandBuffers[last.ptr].okSubmits = 1

-----------------------------------------------------------------------------
(* Properties of the shader cache (SpecShader) *)

\* C3: while no IOMalloc has failed since the layer was initialized, a
\* NVBridgeMetalCompileShader call that follows a successful call with the same
\* source text and shader type is a cache hit: it succeeds, neither translates
\* nor compiles, leaves the entry count unchanged and returns a payload of the
\* same size and bytes as the call before it.
C3_SecondCompileIsHit ==
    [][(/\ mlast'.op = "CompileShader" /\ mlast'.again
        /\ gMetalInitialized /\ ~allocFailed')
       => /\ mlast'.result = "kIOReturnSuccess"
          /\ mlast'.hit
          /\ ~mlast'.translated
          /\ ~mlast'.compiled
          /\ gShaderCacheEntries' = gShaderCacheEntries
          /\ mlast'.size = mlast.size
          /\ mlast'.shader = mlast.shader
          /\ ~mlast'.shader.null]_vars

\* C3 witness: the second of two identical compilations, answered from the cache
C3_Witness ==
    /\ mlast.op = "CompileShader"
    /\ mlast.again
    /\ ~allocFailed
    /\ mlast.hit
    /\ mlast.size = CompiledBinary.size
    /\ mlast.shader = CompiledBinary.shader

\* the keys of the occupied slots are pairwise distinct
DistinctShaderKeys(cache, entries) ==
    \A i, j \in 1..entries : cache[i].key = cache[j].key => i = j

\* C5: when the shader cache holds MAX_SHADER_CACHE_ENTRIES entries with
\* distinct keys and a compilation adds a key that is not among them, only the
\* first slot changes: the entry count stays at the capacity, the key that was
\* in the first slot is no longer found, every other entry is still found in
\* its slot with its payload, and after a successful add the new key is found
\* with the payload that was added.
C5_EvictionReplacesFirstSlot ==
    [][(/\ mlast'.op = "CompileShader" /\ mlast'.added # "none"
        /\ gShaderCacheEntries = MAX_SHADER_CACHE_ENTRIES
        /\ DistinctShaderKeys(gShaderCache, gShaderCacheEntries)
        /\ FindShader(gShaderCache, gShaderCacheEntries,
                      ShaderKey(mlast'.src, mlast'.type)) = 0)
       => /\ gShaderCacheEntries' = MAX_SHADER_CACHE_ENTRIES
          /\ FindShader(gShaderCache', gShaderCacheEntries', gShaderCache[1].key) = 0
          /\ \A i \in 2..MAX_SHADER_CACHE_ENTRIES :
                /\ gShaderCache'[i] = gShaderCache[i]
                /\ FindShader(gShaderCache', gShaderCacheEntries', gShaderCache[i].key) = i
          /\ FindShader(gShaderCache', gShaderCacheEntries',
                        ShaderKey(mlast'.src, mlast'.type)) = 1
          /\ (mlast'.added = "kIOReturnSuccess") =>
                lookupShaderInCache(gShaderCache', gShaderCacheEntries',
                                    ShaderKey(mlast'.src, mlast'.type), TRUE)
                = {[found |-> TRUE, crash |-> FALSE, shader |-> CompiledBinary.shader,
                    size |-> CompiledBinary.size]}]_vars

\* C5 witness: a full cache whose first slot holds the key the last, successful
\* compilation added while every other slot still holds a payload
C5_Witness ==
    /\ mlast.op = "CompileShader"
    /\ mlast.added = "kIOReturnSuccess"
    /\ mlast.allocsOk
    /\ MAX_SHADER_CACHE_ENTRIES > 1
    /\ gShaderCacheEntries = MAX_SHADER_CACHE_ENTRIES
    /\ gShaderCache[1].key = ShaderKey(mlast.src, mlast.type)
    /\ \A i \in 2..MAX_SHADER_CACHE_ENTRIES : ~gShaderCache[i].shader.null

\* C16 (as stated): a compilation that adds a shader whose key is already in an
\* occupied slot stores the new payload and its size in that slot, leaves the
\* entry count and every other slot unchanged, and a lookup of the key
\* afterwards returns the new payload. When the IOMalloc of the update fails the
\* slot is left with a null payload, so this fails.
C16_UpdateInPlace ==
    [][(/\ mlast'.op = "CompileShader" /\ mlast'.added # "none"
        /\ FindShader(gShaderCache, gShaderCacheEntries,
                      ShaderKey(mlast'.src, mlast'.type)) # 0)
       => LET key == ShaderKey(mlast'.src, mlast'.type)
              i == FindShader(gShaderCache, gShaderCacheEntries, key)
          IN /\ gShaderCacheEntries' = gShaderCacheEntries
             /\ \A j \in (1..MAX_SHADER_CACHE_ENTRIES) \ {i} :
                   gShaderCache'[j] = gShaderCache[j]
             /\ gShaderCache'[i] = [key |-> key, shader |-> CompiledBinary.shader,
                                    size |-> CompiledBinary.size]
             /\ lookupShaderInCache(gShaderCache', gShaderCacheEntries', key, TRUE)
                = {[found |-> TRUE, crash |-> FALSE, shader |-> CompiledBinary.shader,
                    size |-> CompiledBinary.size]}]_vars

\* C19 (as stated): in every compilation addShaderToCache, when it is called,
\* returns kIOReturnSuccess, and lookupShaderInCache reports a hit whenever the
\* key is in an occupied slot. Each of the two takes its failure return when its
\* IOMalloc fails, so this fails.
C19_CacheNeverFails ==
    [][(/\ mlast'.op = "CompileShader"
        /\ gMetalInitialized
        /\ mlast'.type \in ValidShaderTypes)
       => /\ mlast'.added \in {"none", "kIOReturnSuccess"}
          /\ FindShader(gShaderCache, gShaderCacheEntries,
                        ShaderKey(mlast'.src, mlast'.type)) # 0
                => mlast'.hit]_vars

-----------------------------------------------------------------------------
(* Properties of the pipeline-state cache (SpecPipe) *)

\* the table still holds the entry that gave input its last handle
StillCached(input) ==
    \E i \in 1..gPipelineCacheEntries :
        gPipelineCache[i] = [hash |-> PipelineHash(input), pipelineState |-> issued[input]]

\* C4 (as stated): between one initialization and the next shutdown, a
\* successful NVBridgeMetalCreatePipelineState call returns the handle that the
\* last successful call with the same vertex, fragment and descriptor bytes
\* returned.
C4_SameInputSameHandle ==
    [][(/\ mlast'.op = "CreatePipelineState"
        /\ mlast'.result = "kIOReturnSuccess"
        /\ issued[mlast'.input] # 0)
       => mlast'.handle = issued[mlast'.input]]_vars

\* C4 (amended): between one initialization and the next shutdown, a successful
\* NVBridgeMetalCreatePipelineState call returns the handle that the last
\* successful call with the same bytes returned, provided the cache entry that
\* holds that handle has not been replaced by an eviction in between.
C4_SameInputSameHandleWhileCached ==
    [][(/\ mlast'.op = "CreatePipelineState"
        /\ mlast'.result = "kIOReturnSuccess"
        /\ issued[mlast'.input] # 0
        /\ StillCached(mlast'.input))
       => /\ mlast'.handle = issued[mlast'.input]
          /\ mlast'.hit]_vars

\* C4 witness: after at least one eviction, a creation answered from the cache
\* with the handle its input was given before
C4_Witness ==
    /\ mlast.op = "CreatePipelineState"
    /\ mlast.result = "kIOReturnSuccess"
    /\ mlast.hit
    /\ mlast.handle = issued[mlast.input]
    /\ nextHandle > MAX_PIPELINE_CACHE_ENTRIES + 1
    /\ StillCached(mlast.input)

-----------------------------------------------------------------------------
(* Properties of NVMetalCommandBuffer (SpecCmd) *)

\* C6: waitUntilCompleted on a buffer that has not been committed only warns:
\* the buffer does not become completed, its committed flag stays false and
\* the wait for the GPU is not reached.
C6_WaitOnUncommitted ==
    [][(clast'.op = "waitUntilCompleted" /\ ~committed)
       => /\ clast'.log = "uncommitted"
          /\ ~completed'
          /\ ~committed'
          /\ waitCalls' = waitCalls]_vars

\* C6 witness: a wait on a buffer that holds an encoder and was never committed
C6_Witness ==
    /\ clast.op = "waitUntilCompleted"
    /\ Len(encoders) > 0
    /\ clast.log = "uncommitted"
    /\ ~committed
    /\ ~completed
    /\ waitCalls = 0
    /\ commitCalls = 0

\* C7: however often commit is called on a command buffer, NVBridge_FlushCommands
\* is called once, by the first commit; every commit call returns with the
\* buffer committed, a repeated one after only a warning.
C7_OneFlushPerBuffer ==
    /\ flushCalls = (IF commitCalls = 0 THEN 0 ELSE 1)
    /\ commitCalls >= 1 => committed
    /\ (clast.op = "commit" /\ commitCalls >= 2) => clast.log = "already committed"

\* C7 witness: commit has been called twice and one flush was made
C7_Witness ==
    /\ commitCalls = 2
    /\ flushCalls = 1
    /\ clast.op = "commit"
    /\ clast.log = "already committed"

\* the encoders of the buffer whose active flag is set
ActiveEncoders == {e \in 1..Len(encoders) : encoders[e].active}

\* C12: at most one encoder created from the command buffer is active at any
\* time, and it is the one created last: creating an encoder has ended every
\* encoder created before it.
C12_OneActiveEncoder ==
    /\ Cardinality(ActiveEncoders) <= 1
    /\ ActiveEncoders \subseteq {activeEncoder}
    /\ \A e \in 1..(Len(encoders) - 1) : ~encoders[e].active
    /\ activeEncoder \in {0, Len(encoders)}

\* C12 witness: a second encoder was just created, which ended the first one
\* and submitted its end-of-encoding record
C12_Witness ==
    /\ clast.op \in {"render", "compute"}
    /\ clast.log = "created"
    /\ Len(encoders) = 2
    /\ encoders[2].active
    /\ ~encoders[1].active
    /\ submitted = <<[cmd |-> "end", encoder |-> 1]>>

\* C13: once the buffer is committed, renderCommandEncoder and
\* computeCommandEncoder return null and create nothing, no encoder of the
\* buffer is active, and no further record is submitted.
C13_NoEncodingAfterCommit ==
    [][committed
       => /\ ActiveEncoders = {}
          /\ encoders' = encoders
          /\ submitted' = submitted
          /\ (clast'.op \in {"render", "compute"})
                 => (clast'.encoder = 0 /\ clast'.log = "committed")]_vars

\* C13 witness: a draw or dispatch on an encoder with a pipeline state, made
\* after the commit, that submitted nothing
C13_Witness ==
    /\ committed
    /\ clast.op = "encodeCommand"
    /\ clast.log = "ignored"
    /\ encoders[clast.encoder].pipelineState

\* C14: committed and completed never go back from true to false, and
\* completed implies committed.
C14_ForwardOnly ==
    [][/\ committed => committed'
       /\ completed => completed'
       /\ completed' => committed']_vars

\* C14 witness: a completed buffer on which commit was called again
C14_Witness ==
    /\ committed
    /\ completed
    /\ clast.op = "commit"
    /\ clast.log = "already committed"


-----------------------------------------------------------------------------
(* Properties of the two caches together (SpecMetal) *)

\* C20: a compilation whose translator or compiler fails, and a pipeline
\* creation whose pipeline state cannot be built, return the status the failing
\* step produced and leave both tables and both entry counts as they were.
C20_FailureInsertsNothing ==
    [][/\ (mlast'.op = "CompileShader" /\ mlast'.translated /\ mlast'.added = "none")
             => /\ mlast'.result = IF mlast'.compiled THEN compileNVPTXToBinary(FALSE)
                                   ELSE translateMetalShaderToNVPTX(FALSE)
                /\ mlast'.result # "kIOReturnSuccess"
                /\ UNCHANGED <<gShaderCache, gShaderCacheEntries, gPipelineCache,
                               gPipelineCacheEntries>>
       /\ (/\ mlast'.op \in {"CreatePipelineState", "CreateComputePipelineState"}
           /\ ~mlast'.allocsOk)
             => /\ mlast'.result = "kIOReturnNoMemory"
                /\ mlast'.handle = 0
                /\ UNCHANGED <<gShaderCache, gShaderCacheEntries, gPipelineCache,
                               gPipelineCacheEntries>>]_vars

\* the compiler failed in a compilation while both tables held entries
C20_Witness ==
    /\ mlast.op = "CompileShader"
    /\ mlast.compiled
    /\ mlast.added = "none"
    /\ mlast.result = "kIOReturnNoMemory"
    /\ gShaderCacheEntries > 0
    /\ gPipelineCacheEntries > 0

-----------------------------------------------------------------------------
(* Properties of the Metal layer under concurrent calls (SpecConc) *)

\* slots of a table whose content a step changes
ChangedSlots(before, after) == {i \in DOMAIN before : after[i] # before[i]}

\* C17: whatever the threads do and however their lock sections interleave,
\* the shader cache never counts more than MAX_SHADER_CACHE_ENTRIES entries and
\* the pipeline cache never more than MAX_PIPELINE_CACHE_ENTRIES, the tables
\* keep their fixed size, and a step that writes to a table that is full changes
\* one slot and leaves the count at the capacity.
C17_FixedCapacity ==
    [][/\ gShaderCacheEntries' \in 0..MAX_SHADER_CACHE_ENTRIES
       /\ gPipelineCacheEntries' \in 0..MAX_PIPELINE_CACHE_ENTRIES
       /\ DOMAIN gShaderCache' = 1..MAX_SHADER_CACHE_ENTRIES
       /\ DOMAIN gPipelineCache' = 1..MAX_PIPELINE_CACHE_ENTRIES
       /\ (/\ gMetalInitialized
           /\ gShaderCacheEntries = MAX_SHADER_CACHE_ENTRIES
           /\ gShaderCache' # gShaderCache)
             => /\ gShaderCacheEntries' = MAX_SHADER_CACHE_ENTRIES
                /\ Cardinality(ChangedSlots(gShaderCache, gShaderCache')) = 1
       /\ (/\ gMetalInitialized
           /\ gPipelineCacheEntries = MAX_PIPELINE_CACHE_ENTRIES
           /\ gPipelineCache' # gPipelineCache)
             => /\ gPipelineCacheEntries' = MAX_PIPELINE_CACHE_ENTRIES
                /\ Cardinality(ChangedSlots(gPipelineCache, gPipelineCache')) = 1]_vars

\* both tables are full, the first pipeline slot was written after the last one
\* (its handle is newer), and a thread is about to add a shader key that the
\* full shader table does not hold
C17_Witness ==
    /\ gShaderCacheEntries = MAX_SHADER_CACHE_ENTRIES
    /\ gPipelineCacheEntries = MAX_PIPELINE_CACHE_ENTRIES
    /\ gPipelineCache[1].pipelineState > gPipelineCache[MAX_PIPELINE_CACHE_ENTRIES].pipelineState
    /\ \E t \in Threads :
          /\ threads[t].pc = "compiling"
          /\ FindShader(gShaderCache, gShaderCacheEntries, threads[t].key) = 0

\* the hashes of the occupied pipeline slots are pairwise distinct
DistinctPipelineHashes(cache, entries) ==
    \A i, j \in 1..entries : cache[i].hash = cache[j].hash => i = j

\* C18 (as stated): at every moment, with any number of threads inside the
\* layer, no two occupied shader-cache slots hold the same key and no two
\* occupied pipeline-cache slots hold the same hash. Two threads that create the
\* same pipeline at the same time both miss and both store, so this fails.
C18_OneEntryPerFingerprint ==
    /\ DistinctShaderKeys(gShaderCache, gShaderCacheEntries)
    /\ DistinctPipelineHashes(gPipelineCache, gPipelineCacheEntries)

-----------------------------------------------------------------------------
(* Order of the records of a command buffer (SpecCmd) *)

\* the positions in recs of the records of encoder e
RecordsOf(recs, e) == {i \in 1..Len(recs) : recs[i].encoder = e}

\* C21: records are handed to NVBridge_SubmitCommand in the order the client
\* issued them: a step only appends to what was submitted, every record of an
\* earlier encoder comes before every record of a later one, an encoder that
\* is no longer active has its end-of-encoding marker as its last record and
\* only once, and a commit that flushes has submitted the end-of-encoding
\* marker of the encoder that was active before NVBridge_FlushCommands is called.
C21_RecordsInOrder ==
    [][/\ Len(submitted') >= Len(submitted)
       /\ SubSeq(submitted', 1, Len(submitted)) = submitted
       /\ \A i, j \in 1..Len(submitted') :
             i < j => submitted'[i].encoder <= submitted'[j].encoder
       /\ \A e \in 1..Len(encoders') :
             ~encoders'[e].active
                => /\ Cardinality({i \in RecordsOf(submitted', e) :
                                      submitted'[i].cmd = "end"}) = 1
                   /\ \A i \in RecordsOf(submitted', e) :
                         (submitted'[i].cmd = "end") <=>
                             (\A j \in RecordsOf(submitted', e) : j <= i)
       /\ (clast'.op = "commit" /\ ~committed)
             => /\ flushedAfter' = Append(flushedAfter, Len(submitted'))
                /\ (activeEncoder # 0 /\ encoders[activeEncoder].active)
                      => submitted' = Append(submitted,
                                             [cmd |-> "end", encoder |-> activeEncoder])]_vars

\* two encoders each drew or dispatched once, the second was still active at
\* the commit, and the flush came after all four records
C21_Witness ==
    /\ committed
    /\ Len(submitted) = 4
    /\ submitted[1].encoder = 1 /\ submitted[1].cmd # "end"
    /\ submitted[2] = [cmd |-> "end", encoder |-> 1]
    /\ submitted[3].encoder = 2 /\ submitted[3].cmd # "end"
    /\ submitted[4] = [cmd |-> "end", encoder |-> 2]
    /\ flushedAfter = <<4>>
    /\ clast.op = "commit"

-----------------------------------------------------------------------------
(* Properties of the two layers before initialization and after shutdown (SpecLifecycle) *)

\* C22: a call made while its layer is not initialized is turned away and
\* changes nothing. On the bridge, allocate, free, copy, create, submit and wait
\* report "not initialized", call no vendor function and leave the allocation
\* table and the command-buffer list as they were; in the Metal layer, a
\* compilation or a pipeline creation returns kIOReturnNotReady and leaves both
\* cache tables and their counts as they were.
C22_UninitializedRejected ==
    [][/\ (/\ ~m_initialized
           /\ last' # last
           /\ last'.op \in {"allocateMemory", "freeMemory", "copyHostToDevice",
                            "copyDeviceToHost", "createCommandBuffer",
                            "submitCommandBuffer", "waitForCommandBuffer"})
             => /\ last'.log = "not initialized"
                /\ last'.result \in {"null", "void", "false", "empty"}
                /\ last'.vendor = <<>>
                /\ UNCHANGED <<m_initialized, impl, memoryInfo, allocations, vendorLive,
                               commandBuffers, hung>>
       /\ (/\ ~gMetalInitialized
           /\ mlast' # mlast
           /\ mlast'.op \in {"CompileShader", "CreatePipelineState",
                             "CreateComputePipelineState"})
             => /\ mlast'.result = "kIOReturnNotReady"
                /\ UNCHANGED <<gMetalInitialized, gShaderCache, gShaderCacheEntries,
                               gPipelineCache, gPipelineCacheEntries, nextHandle>>]_vars

\* both layers were used and shut down; a submit of the buffer that is still
\* in the list and a compilation of the shader whose key is still in its slot
\* were turned away
C22_Witness ==
    /\ ~m_initialized
    /\ last.op = "submitCommandBuffer"
    /\ last.log = "not initialized"
    /\ Len(commandBuffers) >= 1
    /\ ~commandBuffers[1].submitted
    /\ ~gMetalInitialized
    /\ mlast.op = "CompileShader"
    /\ mlast.result = "kIOReturnNotReady"
    /\ gShaderCache[1].key # ""

\* C23: the tables are rebuilt on every initialization. A shutdown sets both
\* counts to zero; an NVBridgeMetalInitialize that finds the layer shut down
\* succeeds and leaves both tables zeroed with count zero, and the compilation
\* or pipeline creation that comes first after it is a miss; an
\* NVBridgeMetalInitialize that finds the layer initialized returns success and
\* leaves tables and counts as they were.
C23_RebuiltOnInitialize ==
    [][/\ (mlast' # mlast /\ mlast'.op = "Shutdown")
             => /\ ~gMetalInitialized'
                /\ gShaderCacheEntries' = 0
                /\ gPipelineCacheEntries' = 0
       /\ (/\ mlast' # mlast
           /\ mlast'.op = "Initialize"
           /\ mlast'.result = "kIOReturnSuccess"
           /\ ~gMetalInitialized)
             => /\ gMetalInitialized'
                /\ gShaderCache' = [i \in 1..MAX_SHADER_CACHE_ENTRIES |-> EmptyShaderEntry]
                /\ gShaderCacheEntries' = 0
                /\ gPipelineCache' = [i \in 1..MAX_PIPELINE_CACHE_ENTRIES |->
                                         [hash |-> Zero64, pipelineState |-> 0]]
                /\ gPipelineCacheEntries' = 0
       /\ (mlast' # mlast /\ mlast'.op = "Initialize" /\ gMetalInitialized)
             => /\ mlast'.result = "kIOReturnSuccess"
                /\ UNCHANGED <<gMetalInitialized, gShaderCache, gShaderCacheEntries,
                               gPipelineCache, gPipelineCacheEntries>>
       /\ (/\ mlast' # mlast
           /\ mlast.op = "Initialize"
           /\ gShaderCacheEntries = 0
           /\ mlast'.op = "CompileShader"
           /\ mlast'.result = "kIOReturnSuccess")
             => (~mlast'.hit /\ mlast'.translated /\ mlast'.compiled)
       /\ (/\ mlast' # mlast
           /\ mlast.op = "Initialize"
           /\ gPipelineCacheEntries = 0
           /\ mlast'.op \in {"CreatePipelineState", "CreateComputePipelineState"}
           /\ mlast'.result = "kIOReturnSuccess")
             => ~mlast'.hit]_vars

\* the one pipeline of this client was built a second time, which only happens
\* when a shutdown and a new initialization came between the two creations
C23_Witness ==
    /\ gMetalInitialized
    /\ mlast.op = "CreatePipelineState"
    /\ mlast.result = "kIOReturnSuccess"
    /\ ~mlast.hit
    /\ mlast.handle = 2
    /\ gPipelineCacheEntries = 1

-----------------------------------------------------------------------------
(* Properties of initialization against an incomplete driver library (SpecDriver) *)

\* C24: a missing driver symbol is fatal for initialization. An initialize on
\* an uninitialized bridge that resolves fewer than the five symbols does not
\* return SUCCESS, calls no vendor function and leaves the bridge uninitialized;
\* an initialized bridge always has all five; and while the bridge is in the
\* state such a failed initialize left, allocateMemory, submitCommandBuffer and
\* waitForCommandBuffer report "not initialized" and call no vendor function.
C24_MissingSymbolFatal ==
    [][/\ (/\ last' # last
           /\ last'.op = "initialize"
           /\ ~m_initialized
           /\ impl'.functions # DriverSymbols)
             => /\ last'.result # "SUCCESS"
                /\ last'.vendor = <<>>
                /\ ~m_initialized'
       /\ m_initialized' => impl'.functions = DriverSymbols
       /\ (/\ last' # last
           /\ impl.functions # DriverSymbols
           /\ last'.op \in {"allocateMemory", "submitCommandBuffer",
                            "waitForCommandBuffer"})
             => /\ last'.log = "not initialized"
                /\ last'.result \in {"null", "false"}
                /\ last'.vendor = <<>>
                /\ UNCHANGED <<m_initialized, impl, allocations, vendorLive,
                               commandBuffers>>]_vars

\* the bridge had worked and was shut down, the next initialize found the
\* library without NVSubmitCommand, and the submit of the buffer made before
\* was turned away
C24_Witness ==
    /\ ~m_initialized
    /\ impl.driverHandle
    /\ impl.functions = DriverSymbols \ {"NVSubmitCommand"}
    /\ Len(commandBuffers) >= 1
    /\ last.op = "submitCommandBuffer"
    /\ last.log = "not initialized"
    /\ last.vendor = <<>>

-----------------------------------------------------------------------------
(* Properties of the mutex of NVBridgeCore (SpecLock, SpecCoreCmd) *)

\* C25 (as stated): a wait for completion blocks only its caller: while a
\* thread is inside nvWaitForCompletion, no other thread that calls
\* allocateMemory, freeMemory or submitCommandBuffer is held up at m_mutex.
\* waitForCommandBuffer keeps its lock_guard across the vendor wait, so the
\* other thread's call does not get past its own lock_guard until the wait
\* returns.
C25_WaitBlocksOnlyCaller ==
    m_mutex.owner # "none" => m_mutex.blocked = {}

\* C26 (as stated): no operation locks m_mutex while its own thread holds it,
\* so every call on an initialized bridge returns with the mutex released; a
\* createCommandBuffer whose nvAllocateMemory succeeds returns a buffer with a
\* non-zero id. createCommandBuffer holds m_mutex when it calls allocateMemory,
\* which locks m_mutex again; one outcome of that is a call that never returns.
C26_NoLockHazard ==
    [][(m_initialized /\ last' # last /\ last'.op = "createCommandBuffer")
          => /\ ~hung'
             /\ last'.log \in {"created", "failed"}
             /\ last'.log = "created"
                   => (last'.result = "buffer" /\ last'.ptr # 0)]_vars

-----------------------------------------------------------------------------
(* Properties of the spin locks of the Metal layer (SpecConc) *)

\* C27: the translator, the compiler and the pipeline builder run outside the
\* cache locks: a thread that is translating or compiling a shader, or
\* building a pipeline state, holds neither gShaderCacheLock nor
\* gPipelineCacheLock, so the lock section of any other thread's lookup or
\* insertion can be entered while it works.
C27_BuildOutsideLocks ==
    \A t \in Threads :
        /\ threads[t].pc \in {"compiling", "building"} => threads[t].held = {}
        /\ LockFree("gShaderCacheLock", t)
        /\ LockFree("gPipelineCacheLock", t)

\* one thread was still translating a shader when the other thread's lookup of
\* a different key ran and missed, and the first insertion of the session is
\* still to come
C27_Witness ==
    /\ threads["t1"].pc = "compiling"
    /\ threads["t2"].pc = "compiling"
    /\ threads["t1"].key # threads["t2"].key
    /\ gShaderCacheEntries = 0

-----------------------------------------------------------------------------
(* Properties of the fingerprints (SpecMetal) *)

\* h * 33 + byte from 0 over the bytes, each a value in 0..255, as an integer;
\* the inputs of the model are short enough for the value to stay below 2^31
RECURSIVE Djb2(_, _)
Djb2(h, bytes) ==
    IF bytes = <<>> THEN h ELSE Djb2(h * 33 + Head(bytes), Tail(bytes))

\* a value below 2^31 as an unsigned integer of w limbs
AsLimbs(n, w) ==
    [i \in 1..w |-> IF i = 1 THEN n % 65536
                    ELSE IF i = 2 THEN (n \div 65536) % 65536 ELSE 0]

\* C28 (as stated): the fingerprint is h = h * 33 + byte, seeded with 0, over
\* every input byte taken as a value in 0..255: a compiled shader is stored
\* under the key made of its type and that value modulo 2^32 over its source
\* text, and a created render pipeline is stored under that value modulo 2^64
\* over vertex bytes, fragment bytes and descriptor bytes. The shader loop adds
\* shaderSource[i], a char, so a byte above 127 is added as byte - 256.
C28_Djb2Fingerprint ==
    [][/\ (/\ mlast' # mlast
           /\ mlast'.op = "CompileShader"
           /\ mlast'.result = "kIOReturnSuccess"
           /\ ~mlast'.hit
           /\ mlast'.allocsOk)
             => \E i \in 1..gShaderCacheEntries' :
                   gShaderCache'[i].key =
                       CacheKey(mlast'.type, AsLimbs(Djb2(0, mlast'.src), 2))
       /\ (/\ mlast' # mlast
           /\ mlast'.op = "CreatePipelineState"
           /\ mlast'.added = "stored")
             => \E i \in 1..gPipelineCacheEntries' :
                   gPipelineCache'[i].hash =
                       AsLimbs(Djb2(0, mlast'.input.a \o mlast'.input.b \o mlast'.input.d), 4)]_vars

\* the bytes a creator hashes, in the order it hashes them
BytesOf(input) == input.a \o input.b \o input.d

\* byte sequences of up to two bytes over the lowest, a middle and the highest byte
SaltBytes == {0, 1, 255}

SaltSeqs == {<<>>} \cup {<<x>> : x \in SaltBytes} \cup {<<x, y>> : x, y \in SaltBytes}

\* C29: the last step of the compute hash, h * 33 + 0xC0FFEE, keeps it apart
\* from the render hash of the same bytes. When a pipeline is created with
\* success while the cache holds the entry of a pipeline of the other kind built
\* from identical bytes, the call does not return that entry's state and the
\* two hashes differ; the same holds for every short byte sequence, hashed as
\* shader bytes or as descriptor bytes.
C29_ComputeSaltSeparates ==
    [][\A x \in PipelineInputs :
          (/\ mlast' # mlast
           /\ mlast'.op \in {"CreatePipelineState", "CreateComputePipelineState"}
           /\ mlast'.result = "kIOReturnSuccess"
           /\ x.kind # mlast'.input.kind
           /\ BytesOf(x) = BytesOf(mlast'.input)
           /\ \E i \in 1..gPipelineCacheEntries :
                 /\ gPipelineCache[i].hash = MakePipelineHash(x)
                 /\ gPipelineCache[i].pipelineState = issued[x])
             => /\ mlast'.handle # issued[x]
                /\ MakePipelineHash(mlast'.input) # MakePipelineHash(x)
                /\ \A b \in SaltSeqs :
                      /\ ComputeHash(b, <<>>) # RenderHash(b, <<>>, <<>>)
                      /\ ComputeHash(<<1>>, b) # RenderHash(<<1>>, <<>>, b)]_vars

\* a render pipeline over the bytes 1, 2, 0 was stored, then a compute pipeline
\* over the same bytes was created: a miss, and the table holds both
C29_Witness ==
    /\ mlast.op = "CreateComputePipelineState"
    /\ mlast.result = "kIOReturnSuccess"
    /\ ~mlast.hit
    /\ BytesOf(mlast.input) = <<1, 2, 0>>
    /\ gPipelineCacheEntries = 2
    /\ gPipelineCache[1].hash = RenderHash(<<1>>, <<2>>, <<0>>)
    /\ gPipelineCache[2].hash = ComputeHash(<<1, 2>>, <<0>>)
    /\ gPipelineCache[1].pipelineState # gPipelineCache[2].pipelineState

-----------------------------------------------------------------------------
(* Properties of the Intel Arc bridge (SpecArc) *)

\* C30 (as stated): ArcBridgeShutdown releases what ArcBridgeInitialize
\* reserved: once ArcBridgeInitialize has been called on a host where every
\* step works and ArcBridgeShutdown has been called after it, the command
\* buffer, the page table and the state buffer exist and each has had its
\* mapping released and its descriptor completed and released exactly once.
\* allocateGPUMemory runs before the initialized flag is set, so its first
\* ArcBridgeAllocateMemory returns kIOReturnNotReady: nothing is reserved, the
\* call fails, and the shutdown finds the bridge not initialized.
C30_ShutdownReleasesReserved ==
    [][(/\ alast.op = "ArcBridgeInitialize"
        /\ alast.arg = GoodHost
        /\ alast'.op = "ArcBridgeShutdown")
          => /\ Len(arcAllocations') = 3
             /\ \A i \in 1..3 :
                   /\ arcAllocations'[i].mapReleases = 1
                   /\ arcAllocations'[i].completes = 1
                   /\ arcAllocations'[i].descriptorReleases = 1
             /\ ~gArcBridgeInitialized']_vars

-----------------------------------------------------------------------------
(* Properties of NVMetalShaderLibrary (SpecLib) *)

\* C31: newFunction(name, isVertex) returns a function whose name is the
\* requested name and whose stage is the requested stage, and a request that
\* repeats the name and stage of the call before it returns the same function
\* without another translation.
C31_KeyedByNameAndStage ==
    [][/\ flast'.result.id # 0
          => /\ flast'.result.name = flast'.functionName
             /\ flast'.result.isVertex = flast'.isVertex
       /\ (/\ flast.result.id # 0
           /\ flast'.functionName = flast.functionName
           /\ flast'.isVertex = flast.isVertex)
          => /\ flast'.result = flast.result
             /\ ~flast'.translated]_vars

-----------------------------------------------------------------------------
(* Properties of the user-space ArcBridge (SpecXe) *)

\* C32: initialize called on an uninitialized bridge for an Arc A770, A750 or
\* A380, on a host where the device is found and every driver call succeeds,
\* returns SUCCESS and leaves the bridge initialized, and an allocateMemory
\* that follows such a call is accepted.
C32_SupportedDeviceInitializes ==
    [][/\ (/\ xlast'.op = "initialize"
           /\ xlast' # xlast
           /\ ~arcInitialized
           /\ xlast'.deviceID \in {ARC_A770, ARC_A750, ARC_A380}
           /\ \A f \in DOMAIN xlast'.host : xlast'.host[f])
          => /\ xlast'.result = "SUCCESS"
             /\ arcInitialized'
       /\ (/\ xlast.op = "initialize"
           /\ xlast.deviceID \in {ARC_A770, ARC_A750, ARC_A380}
           /\ \A f \in DOMAIN xlast.host : xlast.host[f]
           /\ xlast'.op = "allocateMemory")
          => xlast'.result # "not initialized"]_vars

-----------------------------------------------------------------------------
(* Properties of the CUDA bridge (SpecCuda) *)

\* C33: every NVBridgeCUDA call returns with gCUDALock released, whatever
\* status it returns, so the lock is free after each return.
C33_LockReleasedOnReturn ==
    [][culast' # culast => gCUDALock' = "free"]_vars

\* C34: two successful NVBridgeCUDAStreamCreate calls (likewise EventCreate and
\* ModuleGetFunction) never return the same handle while the slot stays
\* active: of two such calls that return one right after the other, with no
\* other call returning in between, the second has a different handle.
C34_HandlesExclusive ==
    [][(/\ culast.op \in {"stream", "event", "kernel"}
        /\ culast'.op = culast.op
        /\ culast' # culast
        /\ culast.result = "kIOReturnSuccess"
        /\ culast'.result = "kIOReturnSuccess")
       => culast'.handle # culast.handle]_vars

\* C35: while its slot is active and the lock can be taken, the handle of an
\* event is accepted by NVBridgeCUDAEventRecord on the default stream and by
\* NVBridgeCUDAEventDestroy, and the handle of a kernel is accepted by
\* NVBridgeCUDALaunchKernel with block dimensions 1, 1, 1 on the default stream.
C35_HandlesUsable ==
    [][/\ (/\ culast'.op \in {"NVBridgeCUDAEventRecord", "NVBridgeCUDAEventDestroy"}
           /\ gCUDAInitialized
           /\ culast'.handle \in DOMAIN gCUDAEvents
           /\ gCUDAEvents[culast'.handle].active
           /\ culast'.stream = 0)
          => culast'.result = "kIOReturnSuccess"
       /\ (/\ culast'.op = "NVBridgeCUDALaunchKernel"
           /\ gCUDAInitialized
           /\ culast'.handle \in DOMAIN gCUDAKernels
           /\ gCUDAKernels[culast'.handle].active
           /\ culast'.block = <<1, 1, 1>>
           /\ culast'.stream = 0)
          => culast'.result = "kIOReturnSuccess"]_vars

\* C36: NVBridgeCUDALaunchKernel accepts a launch only if the product of the
\* three block dimensions, taken in the integers, is at most 1024.
C36_ThreadsPerBlockTrueProduct ==
    [][(/\ culast'.op = "NVBridgeCUDALaunchKernel"
        /\ culast'.result = "kIOReturnSuccess")
       => LET b == culast'.block
          IN /\ b[1] <= 1024 /\ b[2] <= 1024 /\ b[3] <= 1024
             /\ b[1] * b[2] <= 1024
             /\ b[1] * b[2] * b[3] <= 1024]_vars

-----------------------------------------------------------------------------
(* Properties of createMetalTexture (SpecTexture) *)

\* C37: createMetalTexture(ptr, width, height, format) returns a texture only
\* if ptr is a live allocation whose recorded size is at least width * height
\* * 4 taken in the integers.
C37_TextureFitsAllocation ==
    [][(/\ last'.op = "createMetalTexture"
        /\ last'.result = "texture")
       => /\ last'.ptr \in DOMAIN allocations
          /\ allocations[last'.ptr] \div 4 >= last'.size[1] * last'.size[2]]_vars

-----------------------------------------------------------------------------
(* Properties of the flush issued by commit (SpecCmd) *)

\* C38: a commit whose NVBridge_FlushCommands reports failure leaves the
\* buffer in the recording state (not committed), so that the buffer is
\* committed, and can be completed by waitUntilCompleted, only after a flush
\* that succeeded.
C38_CommittedOnlyIfFlushed ==
    [][(/\ commitCalls' = commitCalls + 1
        /\ clast'.log = "flush failed")
       => ~committed']_vars

-----------------------------------------------------------------------------
(* Properties of a failed initialization (SpecArc) *)

\* C39: when ArcBridgeInitialize has failed, everything it acquired before the
\* failing step has been released by the time a following ArcBridgeShutdown
\* returns: no retain on the PCI device, no register or framebuffer mapping,
\* no internal buffer with an unreleased mapping, and the bridge is
\* uninitialized.
C39_FailedInitReleased ==
    [][(/\ alast.op = "ArcBridgeInitialize"
        /\ alast.result # "kIOReturnSuccess"
        /\ alast'.op = "ArcBridgeShutdown")
       => /\ ~gArcBridgeInitialized'
          /\ gPCIDevice' = 0
          /\ ~gRegisterMap'
          /\ ~gFramebufferMap'
          /\ \A k \in 1..Len(arcAllocations') : arcAllocations'[k].mapReleases > 0]_vars

\* C40 (as stated): in every state each occupied shader-cache slot (index below
\* gShaderCacheEntries) holds a non-null payload with a positive size, and a
\* compilation whose addShaderToCache returns kIOReturnNoMemory leaves the
\* table as it was. An update or an eviction frees the old payload and stores
\* the null IOMalloc result in the occupied slot before returning, so this fails.
C40_OccupiedSlotsHavePayload ==
    [][/\ \A i \in 1..gShaderCacheEntries' :
             /\ gShaderCache'[i].shader # NullShader
             /\ gShaderCache'[i].size > 0
       /\ (mlast'.op = "CompileShader" /\ mlast'.added = "kIOReturnNoMemory")
             => gShaderCache' = gShaderCache]_vars

=============================================================================
